---- MODULE Spec2Model ----
(***************************************************************************)
(* Dual-radio LoRaWAN gateway (ESP32 + 2x SX1276): the SX1276 driver, the  *)
(* channel manager with its TX worker, the gateway core and the liveness   *)
(* part of the packet forwarder, as a state machine.                       *)
(*                                                                         *)
(* A uint32_t value u is represented by the int32_t with the same bit      *)
(* pattern (u for u < 2^31, u - 2^32 otherwise), because the integers of   *)
(* the model checker are 32 bits wide.  Add32, Sub32 and ULt are the       *)
(* wrapping sum, the wrapping difference read as int32_t, and the unsigned *)
(* comparison on that representation.                                      *)
(***************************************************************************)
EXTENDS Integers, Sequences, FiniteSets, TLC

----------------------------------------------------------------------------
(* Program constants *)

GATEWAY_RX_QUEUE_SIZE == 32
GATEWAY_TX_QUEUE_SIZE == 16
GATEWAY_MAX_CHANNELS == 8
UPLINK_QUEUE_SIZE == 32
LORA_MAX_PAYLOAD_SIZE == 255
UDP_BUFFER_SIZE == 2048
PUSH_DATA_HEADER_LEN == 12
RXPK_WRAPPER_LEN == 11
RXPK_ITEM_MIN_LEN == 132
MAX_UPLINK_BATCH == 8
AU915_FREQ_START_UP == 915200000
AU915_FREQ_STEP_UP == 200000
AU915_SB2 == 1
AU915_FREQ_START_DOWN == 923300000
AU915_FREQ_STEP_DOWN == 600000
SX1276_SF_7 == 7
SX1276_SF_6 == 6
SX1276_SF_11 == 11
SX1276_SF_12 == 12
SX1276_BW_125_KHZ == 7
SX1276_BW_250_KHZ == 8
SX1276_BW_500_KHZ == 9
SX1276_CR_4_5 == 1
SX1276_CR_4_8 == 4
RX2_FREQUENCY == 923300000
MAX_TX_DELAY_US == 5000000
TOO_LATE_US == 100000
TX_DONE_TIMEOUT_MS == 5000
PROTOCOL_VERSION == 2
PKT_PUSH_DATA == 0
PKT_PUSH_ACK == 1
PKT_PULL_DATA == 2
PKT_PULL_RESP == 3
PKT_PULL_ACK == 4
PKT_TX_ACK == 5
KEEPALIVE_TIMEOUT_US == 30000000
SX1276_RSSI_OFFSET == 157
MaxInt32 == 2147483647
MinInt32 == (-MaxInt32) - 1

----------------------------------------------------------------------------
(* Bounds of the exploration *)

\* environment events (lifecycle calls, downlink requests, clock advances,
\* received frames, timer ticks, server datagrams) that change the state, in
\* one behaviour
MaxEvents == 3
\* downlink requests submitted in one behaviour
MaxDownlinks == 1
\* milliseconds that pass in one modelled iteration of the TX_DONE wait loop
TimeoutStep == 2500

\* clock values (uint32_t microseconds) in the initial state: 70 ms before
\* the 32-bit counter wraps, so that timestamps on both sides of the wrap
\* occur
BootClocks == {-70000}
\* amounts by which the microsecond clock advances between two observations
ClockSteps == {40000}
\* payload sizes of received frames
RxSizes == {255}
\* values of the packet RSSI register of received frames
RssiRegs == {120}
\* tmst of a scheduled downlink, relative to the clock when it is submitted
TxOffsets == {-100001, -100000, 40000, 7000000}

----------------------------------------------------------------------------
(* 32-bit arithmetic *)

\* (uint32_t)(a + d)
Add32(a, d) ==
    IF d >= 0
    THEN IF a > MaxInt32 - d
         THEN ((a - MaxInt32) - 1) + ((d - MaxInt32) - 1)
         ELSE a + d
    ELSE IF a < MinInt32 - d
         THEN ((a + MaxInt32) + 1) + ((d + MaxInt32) + 1)
         ELSE a + d

\* (int32_t)(a - b) for uint32_t a, b
Sub32(a, b) ==
    IF b = MinInt32
    THEN Add32(Add32(a, MaxInt32), 1)
    ELSE Add32(a, -b)

\* a < b for uint32_t a, b
ULt(a, b) ==
    IF (a >= 0) <=> (b >= 0) THEN a < b ELSE b < 0

\* ((uint64_t)frequency << 19) / 32000000, computed as
\* 256 * (f div 15625) + (256 * (f mod 15625)) div 15625 to stay within
\* 32 bits (2^19 / 32000000 = 256 / 15625); f is below 2^31 here
Frf(frequency) ==
    256 * (frequency \div 15625) + ((256 * (frequency % 15625)) \div 15625)

\* kHz of a lora_modulation_t bandwidth index (0=125kHz, 1=250kHz, 2=500kHz)
ModulationBwKHz(bandwidth) ==
    CASE bandwidth = 0 -> 125
      [] bandwidth = 1 -> 250
      [] bandwidth = 2 -> 500
      [] OTHER -> 0

\* kHz of a sx1276_bandwidth_t value written to modem-config-1 bits 7..4
\* (0 stands for the narrow settings below 125 kHz, which no downlink uses)
Sx1276BwKHz(bw) ==
    CASE bw = SX1276_BW_125_KHZ -> 125
      [] bw = SX1276_BW_250_KHZ -> 250
      [] bw = SX1276_BW_500_KHZ -> 500
      [] OTHER -> 0

\* variant: gw_config_get_uplink_freq leaving the sub-band out
gw_config_get_uplink_freq_sb1(channel) ==
    LET ch == IF channel >= GATEWAY_MAX_CHANNELS THEN 0 ELSE channel
    IN  AU915_FREQ_START_UP + (ch * AU915_FREQ_STEP_UP)

\* gw_config_get_uplink_freq with the default sub-band
gw_config_get_uplink_freq(channel) ==
    LET ch == IF channel >= GATEWAY_MAX_CHANNELS THEN 0 ELSE channel
        absolute_channel == (AU915_SB2 * 8) + ch
    IN  AU915_FREQ_START_UP + (absolute_channel * AU915_FREQ_STEP_UP)

----------------------------------------------------------------------------
(* State *)

VARIABLES
    radio,          \* the two sx1276_dev_s, with the chip registers they drive
    s_cm,           \* channel_manager_t
    tx_queue,       \* s_cm.tx_queue
    txw,            \* the TX worker (tx_task): position and locals
    s_gw,           \* gateway_state_t: running, stats
    rx_queue,       \* s_gw.rx_queue
    rxw,            \* position of rx_process_task
    s_pf,           \* pkt_fwd_state_t: running, status.connected
    pfw,            \* the forwarder's rx_task: position and locals
    uplink_queue,   \* s_pf.uplink_queue
    udp_out,        \* datagrams sent to the server: every TX_ACK since the
                    \* initial state, and the latest PUSH_DATA
    main_pc,        \* position of the task calling lora_gateway_start/stop
    clock,          \* low 32 bits of esp_timer_get_time()
    hist,           \* history: requests submitted, handed to the radio,
                    \* skipped; frames delivered; last frame sent in a
                    \* PUSH_DATA; PULL_RESP datagrams handled, and the latest;
                    \* frames delivered with a CRC error
    events,         \* environment events so far
    pftx,           \* the forwarder's tx_task: position and locals
    tmr,            \* the timer service task running keepalive_callback and
                    \* stat_callback: position and locals
    b64,            \* a byte string taken through encode_base64 and
                    \* decode_base64: position, input, text, output
    app,            \* a task calling the driver or the gateway API: the
                    \* call it is in, its position and its locals
    s_net           \* network manager: configuration, active interface,
                    \* the handlers' statuses, position of the monitor tick

vars == << radio, s_cm, tx_queue, txw, s_gw, rx_queue, rxw, s_pf, pfw,
           uplink_queue, udp_out, main_pc, clock, hist, events, pftx, tmr,
           b64, app, s_net >>

Radios == {"rx_radio", "tx_radio"}

\* sx1276_config_t of the two radios as app_main builds them
RxRadioConfig ==
    [frequency |-> gw_config_get_uplink_freq(0), sf |-> SX1276_SF_7, bw |-> 0,
     cr |-> SX1276_CR_4_5, invert_iq_rx |-> FALSE, invert_iq_tx |-> TRUE]

TxRadioConfig ==
    [frequency |-> RX2_FREQUENCY, sf |-> SX1276_SF_12,
     bw |-> SX1276_BW_500_KHZ, cr |-> SX1276_CR_4_5,
     invert_iq_rx |-> FALSE, invert_iq_tx |-> TRUE]

\* downlink modulations the server asks for: the RX2 default, and a
\* narrow-band, non-inverted one
TxModulations ==
    { [frequency |-> 923300000, bandwidth |-> 2, spreading_factor |-> 12,
       coding_rate |-> 1, invert_polarity |-> TRUE],
      [frequency |-> 923900000, bandwidth |-> 0, spreading_factor |-> 7,
       coding_rate |-> 1, invert_polarity |-> FALSE] }

NoPacket ==
    [id |-> 0, immediate |-> TRUE, tx_timestamp |-> 0,
     modulation |-> [frequency |-> 0, bandwidth |-> 0, spreading_factor |-> 0,
                     coding_rate |-> 0, invert_polarity |-> FALSE],
     payload_size |-> 0]

\* the history's note of a PULL_RESP datagram: header bytes 1 and 2, the
\* kind of its JSON body, the datr and data strings of its txpk
PullRespNote(d) ==
    [b1 |-> d.b1, b2 |-> d.b2, json |-> d.json, datr |-> d.txpk.datr,
     data |-> d.txpk.data]

\* no PULL_RESP handled yet
NoPullResp ==
    [b1 |-> 0, b2 |-> 0, json |-> "none", datr |-> << >>,
     data |-> [len |-> 0, pad |-> 0]]

\* a device right after sx1276_init(config): sleep, standby, sx1276_apply_config
sx1276_init(config) ==
    [op_mode_reg |-> "STANDBY", current_mode |-> "STANDBY",
     config |-> config,
     reg_frf |-> Frf(config.frequency), reg_sf |-> config.sf,
     reg_bw |-> config.bw, reg_cr |-> config.cr,
     reg_ldro |-> (config.sf >= SX1276_SF_11
                     /\ config.bw <= SX1276_BW_125_KHZ),
     reg_invert_rx |-> config.invert_iq_rx,
     reg_invert_tx |-> config.invert_iq_tx,
     rx_callback |-> FALSE, tx_callback |-> FALSE,
     is_transmitting |-> FALSE, mutex |-> FALSE]

\* the forwarder's tx_task between two iterations of its loop
NoPfTxTask == [pc |-> "loop", batch |-> << >>, reg |-> 0, token |-> 0]

\* the timer service task between two callbacks
IdleTimerTask == [pc |-> "idle", reg |-> 0, token |-> 0]

\* no call of the application task in progress
IdleApp == [pc |-> "idle"]

\* net_manager_start with app_main's configuration (auto failover, WiFi
\* preferred): WiFi active, both interfaces started and connecting, no
\* monitor tick running. read holds the statuses that the monitor read last, and
\* preferred_read whether every read of its last tick found the preferred
\* interface connected
StartedNet ==
    [auto_failover |-> TRUE, preferred |-> "NET_IF_WIFI",
     active |-> "NET_IF_WIFI",
     wifi |-> "NET_STATUS_CONNECTING", eth |-> "NET_STATUS_CONNECTING",
     pc |-> "idle", read |-> [wifi |-> "none", eth |-> "none"],
     preferred_read |-> FALSE]

\* no byte string under conversion
NoBase64 == [pc |-> "none", data |-> << >>, text |-> << >>, output |-> << >>,
             out_len |-> 0]

ZeroStats ==
    [rx_total |-> 0, rx_ok |-> 0, rx_bad |-> 0, rx_forwarded |-> 0,
     tx_total |-> 0, tx_ok |-> 0, tx_fail |-> 0, tx_collision |-> 0]

\* the state after lora_gateway_init and pkt_fwd_init
InitProgram ==
    /\ radio = [r \in Radios |->
                  IF r = "rx_radio" THEN sx1276_init(RxRadioConfig)
                                    ELSE sx1276_init(TxRadioConfig)]
    /\ s_cm = [running |-> FALSE, tx_busy |-> FALSE, tx_mutex |-> FALSE,
               hopping_enabled |-> FALSE, hop_timer |-> FALSE,
               current_channel |-> 0]
    /\ tx_queue = << >>
    /\ txw = [pc |-> "none", packet |-> NoPacket, now |-> 0, delay |-> 0,
              timeout |-> 0]
    /\ s_gw = [initialized |-> TRUE, running |-> FALSE, stats |-> ZeroStats]
    /\ rx_queue = << >>
    /\ rxw = "none"
    /\ s_pf = [running |-> FALSE, connected |-> FALSE, push_sent |-> 0]
    /\ pfw = [pc |-> "idle", packet |-> NoPacket, token |-> 0]
    /\ uplink_queue = << >>
    /\ udp_out = [tx_ack |-> << >>, push_data |-> << >>]
    /\ main_pc = "idle"
    /\ clock \in BootClocks
    /\ hist = [scheduled |-> 0, frames |-> 0, transmitted |-> {},
               too_late |-> {}, pushed |-> 0, pull_resps |-> 0,
               pull_resp |-> NoPullResp, bad_frames |-> {}]
    /\ events = 0
    /\ pftx = NoPfTxTask
    /\ tmr = IdleTimerTask

\* the program after initialisation, no byte string under conversion
Init ==
    /\ InitProgram
    /\ b64 = NoBase64
    /\ app = IdleApp
    /\ s_net = StartedNet

----------------------------------------------------------------------------
(* SX1276 driver: each operator maps a device to the device after the call. *)
(* The calls that take the device mutex are used only where it is free.     *)

\* sx1276_set_mode: writes REG_OP_MODE and caches the mode
sx1276_set_mode(dev, mode) ==
    [dev EXCEPT !.op_mode_reg = mode, !.current_mode = mode]

\* sx1276_set_frequency: writes the three FRF registers, caches the frequency
sx1276_set_frequency(dev, frequency) ==
    [dev EXCEPT !.reg_frf = Frf(frequency), !.config.frequency = frequency]

\* sx1276_start_rx: registers the callback, then
\* sx1276_set_mode(RX_CONTINUOUS)
sx1276_start_rx(dev) ==
    sx1276_set_mode([dev EXCEPT !.rx_callback = TRUE], "RX_CONTINUOUS")

\* sx1276_stop_rx: drops the callback, then sx1276_set_mode(STANDBY)
sx1276_stop_rx(dev) ==
    sx1276_set_mode([dev EXCEPT !.rx_callback = FALSE], "STANDBY")

\* sx1276_transmit up to handle->is_transmitting = true: standby, retune when
\* the packet carries a frequency, set (never clear) the IQ inversion bits,
\* load the FIFO, register the callback; the device mutex stays taken
sx1276_transmit_load(dev, sx_packet) ==
    LET d1 == [dev EXCEPT !.mutex = TRUE, !.op_mode_reg = "STANDBY"]
        d2 == IF sx_packet.frequency > 0
              THEN [d1 EXCEPT !.reg_frf = Frf(sx_packet.frequency)]
              ELSE d1
        d3 == IF sx_packet.invert_iq
              THEN [d2 EXCEPT !.reg_invert_rx = TRUE, !.reg_invert_tx = TRUE]
              ELSE d2
    IN  [d3 EXCEPT !.tx_callback = TRUE, !.is_transmitting = TRUE]

\* the rest of sx1276_transmit: write MODE_TX, cache it, give the mutex
sx1276_transmit_start(dev) ==
    [dev EXCEPT !.op_mode_reg = "TX", !.current_mode = "TX", !.mutex = FALSE]

\* variant: a TX_DONE branch that re-arms continuous receive
isr_tx_done_rx(dev) ==
    [dev EXCEPT !.is_transmitting = FALSE,
                !.op_mode_reg = "RX_CONTINUOUS",
                !.current_mode = "RX_CONTINUOUS"]

\* the TX_DONE branch of dio0_isr_handler on the device
isr_tx_done(dev) ==
    [dev EXCEPT !.is_transmitting = FALSE,
                !.op_mode_reg = "STANDBY", !.current_mode = "STANDBY"]

\* variant: an RX_DONE branch that falls back to standby
isr_rx_done_standby(dev) ==
    [dev EXCEPT !.op_mode_reg = "STANDBY", !.current_mode = "STANDBY"]

\* the RX_DONE branch of dio0_isr_handler on the device: the flags are
\* cleared and the operating mode is left alone
isr_rx_done(dev) ==
    dev

\* the RX_DONE branch with the RSSI offset of the low-frequency port
isr_rx_packet_lf(dev, data, length, crc_error, rssi_reg) ==
    [data |-> data,
     length |-> length,
     rssi |-> rssi_reg - 164,
     crc_ok |-> ~crc_error,
     frequency |-> dev.config.frequency, sf |-> dev.config.sf,
     bw |-> dev.config.bw, cr |-> dev.config.cr]

\* the sx1276_rx_packet_t the ISR builds from the FIFO content (data, of
\* length bytes), the packet RSSI register, the CRC-error bit of the IRQ
\* flags it read and the cached configuration
isr_rx_packet(dev, data, length, crc_error, rssi_reg) ==
    [data |-> data,
     length |-> length,
     rssi |-> rssi_reg - SX1276_RSSI_OFFSET,
     crc_ok |-> ~crc_error,
     frequency |-> dev.config.frequency, sf |-> dev.config.sf,
     bw |-> dev.config.bw, cr |-> dev.config.cr]

----------------------------------------------------------------------------
(* Lifecycle: lora_gateway_start / lora_gateway_stop, with the channel     *)
(* manager calls they make, as run by one application task.                *)

NewTxTask ==
    [pc |-> "loop", packet |-> NoPacket, now |-> 0, delay |-> 0, timeout |-> 0]

\* variant: lora_gateway_start without its test of s_gw.initialized
lora_gateway_start_entry_unchecked ==
    IF s_gw.running THEN "ESP_OK" ELSE "start"

\* lora_gateway_start's entry checks: an error before lora_gateway_init has
\* succeeded, ESP_OK at once when already running, otherwise it starts
lora_gateway_start_entry ==
    IF ~s_gw.initialized THEN "ESP_ERR_INVALID_STATE"
    ELSE IF s_gw.running THEN "ESP_OK"
    ELSE "start"

\* lora_gateway_start up to channel_manager_start's sx1276_start_rx:
\* creates rx_process_task, then (channel manager not running) creates
\* tx_task and starts continuous RX on the RX radio
GatewayStart ==
    /\ main_pc = "idle"
    /\ lora_gateway_start_entry = "start"
    /\ rxw' = "loop"
    /\ IF s_cm.running
       THEN /\ main_pc' = "start_gw_running"
            /\ UNCHANGED << radio, txw >>
       ELSE /\ main_pc' = "start_tx_standby"
            /\ txw' = NewTxTask
            /\ radio' = [radio EXCEPT !["rx_radio"] = sx1276_start_rx(@)]
    /\ UNCHANGED << s_cm, tx_queue, s_gw, rx_queue, s_pf, pfw, udp_out, uplink_queue,
                    clock, hist, events >>
    /\ UNCHANGED << pftx, tmr, b64, app, s_net >>

\* channel_manager_start, second half: TX radio to standby (waits for the
\* device mutex), hop timer started when hopping is enabled, running = true
ChannelManagerStartTx ==
    /\ main_pc = "start_tx_standby"
    /\ ~radio["tx_radio"].mutex
    /\ radio' = [radio EXCEPT !["tx_radio"] = sx1276_set_mode(@, "STANDBY")]
    /\ s_cm' = [s_cm EXCEPT !.running = TRUE,
                            !.hop_timer = (@ \/ s_cm.hopping_enabled)]
    /\ main_pc' = "start_gw_running"
    /\ UNCHANGED << tx_queue, txw, s_gw, rx_queue, rxw, s_pf, pfw, udp_out, uplink_queue,
                    clock, hist, events >>
    /\ UNCHANGED << pftx, tmr, b64, app, s_net >>

\* lora_gateway_start, end: s_gw.running = true
GatewayStartDone ==
    /\ main_pc = "start_gw_running"
    /\ s_gw' = [s_gw EXCEPT !.running = TRUE]
    /\ main_pc' = "idle"
    /\ UNCHANGED << radio, s_cm, tx_queue, txw, rx_queue, rxw, s_pf, pfw, udp_out,
                    uplink_queue, clock, hist, events >>
    /\ UNCHANGED << pftx, tmr, b64, app, s_net >>

\* lora_gateway_stop, beginning: s_gw.running = false
GatewayStop ==
    /\ main_pc = "idle"
    /\ s_gw.running
    /\ events < MaxEvents
    /\ events' = events + 1
    /\ s_gw' = [s_gw EXCEPT !.running = FALSE]
    /\ main_pc' = "stop_cm"
    /\ UNCHANGED << radio, s_cm, tx_queue, txw, rx_queue, rxw, s_pf, pfw, udp_out,
                    uplink_queue, clock, hist >>
    /\ UNCHANGED << pftx, tmr, b64, app, s_net >>

\* variant: stopping parks the radios in single receive
StopModeRx == "RX_SINGLE"

\* the mode channel_manager_stop leaves the radios in
StopMode == "SLEEP"

\* channel_manager_stop up to the RX radio's sleep: running = false, hop
\* timer stopped, sx1276_stop_rx, tx_task deleted wherever it is,
\* sx1276_set_mode(rx_radio, SLEEP)
ChannelManagerStop ==
    /\ main_pc = "stop_cm"
    /\ IF s_cm.running
       THEN /\ s_cm' = [s_cm EXCEPT !.running = FALSE, !.hop_timer = FALSE]
            /\ radio' = [radio EXCEPT !["rx_radio"] =
                             sx1276_set_mode(sx1276_stop_rx(@), StopMode)]
            /\ txw' = [txw EXCEPT !.pc = IF @ = "exited" THEN @ ELSE "deleted"]
            /\ main_pc' = "stop_tx_sleep"
            /\ UNCHANGED rxw
       ELSE /\ rxw' = (IF rxw = "exited" THEN rxw ELSE "deleted")
            /\ main_pc' = "idle"
            /\ UNCHANGED << s_cm, radio, txw >>
    /\ UNCHANGED << tx_queue, s_gw, rx_queue, s_pf, pfw, udp_out, uplink_queue, clock,
                    hist, events >>
    /\ UNCHANGED << pftx, tmr, b64, app, s_net >>

\* channel_manager_stop, end: sx1276_set_mode(tx_radio, SLEEP) (waits for
\* the device mutex); then lora_gateway_stop deletes rx_process_task
ChannelManagerStopTx ==
    /\ main_pc = "stop_tx_sleep"
    /\ ~radio["tx_radio"].mutex
    /\ radio' = [radio EXCEPT !["tx_radio"] = sx1276_set_mode(@, StopMode)]
    /\ rxw' = (IF rxw = "exited" THEN rxw ELSE "deleted")
    /\ main_pc' = "idle"
    /\ UNCHANGED << s_cm, tx_queue, txw, s_gw, rx_queue, s_pf, pfw, udp_out, uplink_queue,
                    clock, hist, events >>
    /\ UNCHANGED << pftx, tmr, b64, app, s_net >>

\* channel_manager_set_hopping: xTimerChangePeriod also starts the timer
SetHopping(enabled) ==
    /\ events < MaxEvents
    /\ s_cm' = [s_cm EXCEPT !.hopping_enabled = enabled, !.hop_timer = enabled]
    /\ events' = IF s_cm' = s_cm THEN events ELSE events + 1
    /\ UNCHANGED << radio, tx_queue, txw, s_gw, rx_queue, rxw, s_pf, pfw, udp_out,
                    uplink_queue, main_pc, clock, hist >>
    /\ UNCHANGED << pftx, tmr, b64, app, s_net >>

\* hop_timer_callback: next channel, retune the RX radio
HopTimerCallback ==
    /\ s_cm.hop_timer
    /\ events < MaxEvents
    /\ IF ~s_cm.running \/ ~s_cm.hopping_enabled
       THEN UNCHANGED << s_cm, radio >>
       ELSE LET ch == (s_cm.current_channel + 1) % GATEWAY_MAX_CHANNELS
            IN  /\ s_cm' = [s_cm EXCEPT !.current_channel = ch]
                /\ radio' = [radio EXCEPT !["rx_radio"] =
                       sx1276_set_frequency(@, gw_config_get_uplink_freq(ch))]
    /\ events' = IF s_cm' = s_cm THEN events ELSE events + 1
    /\ UNCHANGED << tx_queue, txw, s_gw, rx_queue, rxw, s_pf, pfw, udp_out, uplink_queue,
                    main_pc, clock, hist >>
    /\ UNCHANGED << pftx, tmr, b64, app, s_net >>

\* the microsecond clock advances
Tick(d) ==
    /\ events < MaxEvents
    /\ events' = events + 1
    /\ clock' = Add32(clock, d)
    /\ UNCHANGED << radio, s_cm, tx_queue, txw, s_gw, rx_queue, rxw, s_pf, pfw, udp_out,
                    uplink_queue, main_pc, hist >>
    /\ UNCHANGED << pftx, tmr, b64, app, s_net >>

----------------------------------------------------------------------------
(* PULL_RESP datagrams and their decoding *)

\* digit characters and their values
DigitVal ==
    ("0" :> 0) @@ ("1" :> 1) @@ ("2" :> 2) @@ ("3" :> 3) @@ ("4" :> 4) @@
    ("5" :> 5) @@ ("6" :> 6) @@ ("7" :> 7) @@ ("8" :> 8) @@ ("9" :> 9)

\* the %d conversion of sscanf on the characters of str from position i
\* (unsigned decimal, no leading blanks): the value read so far is acc, n
\* digits have been consumed
RECURSIVE ScanInt(_, _, _, _)
ScanInt(str, i, acc, n) ==
    IF i <= Len(str) /\ str[i] \in DOMAIN DigitVal
    THEN ScanInt(str, i + 1, (10 * acc) + DigitVal[str[i]], n + 1)
    ELSE [ok |-> n > 0, value |-> acc, next |-> i]

\* str has the two literal characters c1 c2 at position i
HasLiteral(str, i, c1, c2) ==
    i + 1 <= Len(str) /\ str[i] = c1 /\ str[i + 1] = c2

\* sscanf(datr, "SF%dBW%d", &sf, &bw): the number of conversions made and
\* the values converted
sscanf_datr(datr) ==
    IF ~HasLiteral(datr, 1, "S", "F")
    THEN [count |-> 0, sf |-> 0, bw |-> 0]
    ELSE LET a == ScanInt(datr, 3, 0, 0)
         IN  IF ~a.ok
             THEN [count |-> 0, sf |-> 0, bw |-> 0]
             ELSE IF ~HasLiteral(datr, a.next, "B", "W")
             THEN [count |-> 1, sf |-> a.value, bw |-> 0]
             ELSE LET b == ScanInt(datr, a.next + 2, 0, 0)
                  IN  IF b.ok
                      THEN [count |-> 2, sf |-> a.value, bw |-> b.value]
                      ELSE [count |-> 1, sf |-> a.value, bw |-> 0]

\* decode_base64(input, output, max_len) as far as the length it returns:
\* the input has len characters (a multiple of 4) of which the last pad are
\* '='; i is the position of the group being decoded, out_len the bytes
\* written so far
RECURSIVE decode_base64(_, _, _, _, _)
decode_base64(len, pad, max_len, i, out_len) ==
    IF i < len /\ out_len < max_len
    THEN LET last == i + 4 >= len
             o1 == out_len + 1
             o2 == IF o1 < max_len /\ ~(last /\ pad = 2) THEN o1 + 1 ELSE o1
             o3 == IF o2 < max_len /\ ~(last /\ pad >= 1) THEN o2 + 1 ELSE o2
         IN  decode_base64(len, pad, max_len, i + 4, o3)
    ELSE out_len

\* the datr strings the server sends, and one that lacks the BW part
DatrSF12BW500 == << "S", "F", "1", "2", "B", "W", "5", "0", "0" >>
DatrSF7BW125 == << "S", "F", "7", "B", "W", "1", "2", "5" >>
DatrMalformed == << "S", "F", "7" >>

\* base64 data fields: 4 characters (3 bytes) and 344 characters (258 bytes)
DataShort == [len |-> 4, pad |-> 0]
DataOversize == [len |-> 344, pad |-> 0]

\* a txpk object; freq is in units of 0.1 MHz, tmst is given relative to the
\* gateway clock at the time the datagram is handled, codr is "4/<den>"
Txpk(imme, tmst, m, datr, data) ==
    [imme |-> imme, tmst |-> tmst, freq |-> m.frequency \div 100000,
     datr |-> datr, codr_den |-> m.coding_rate + 4,
     ipol |-> m.invert_polarity, data |-> data]

DatrOf(m) ==
    IF m.spreading_factor = SX1276_SF_12 THEN DatrSF12BW500 ELSE DatrSF7BW125

\* the PULL_RESP datagrams received: bytes 1 and 2 of the header (the
\* token), the JSON body as "invalid" (does not parse), "no_txpk" (parses,
\* has no txpk member) or "txpk" with the object it carries
PullRespDatagrams ==
    { [b1 |-> 18, b2 |-> 52, json |-> "txpk",
       txpk |-> Txpk(TRUE, 0, m, DatrOf(m), DataShort)] : m \in TxModulations }
    \cup
    { [b1 |-> 18, b2 |-> 52, json |-> "txpk",
       txpk |-> Txpk(FALSE, off, m, DatrOf(m), DataShort)] :
         m \in {mm \in TxModulations : mm.spreading_factor = SX1276_SF_12},
         off \in TxOffsets }
    \cup
    { [b1 |-> 171, b2 |-> 205, json |-> "txpk",
       txpk |-> Txpk(TRUE, 0, m, DatrMalformed, DataShort)] :
         m \in {mm \in TxModulations : mm.spreading_factor = SX1276_SF_7} }
    \cup
    { [b1 |-> 0, b2 |-> 255, json |-> "txpk",
       txpk |-> Txpk(TRUE, 0, m, DatrOf(m), DataOversize)] :
         m \in {mm \in TxModulations : mm.spreading_factor = SX1276_SF_12} }
    \cup
    { [b1 |-> 255, b2 |-> 1, json |-> j,
       txpk |-> Txpk(TRUE, 0, m, DatrOf(m), DataShort)] :
         j \in {"invalid", "no_txpk"},
         m \in {mm \in TxModulations : mm.spreading_factor = SX1276_SF_12} }

\* "Parse downlink parameters": the lora_tx_packet_t built from a txpk (id
\* is the history's name for the request)
tx_pkt_of(txpk, id) ==
    LET scan == sscanf_datr(txpk.datr)
    IN  [id |-> id,
         immediate |-> txpk.imme,
         tx_timestamp |-> IF txpk.imme THEN 0 ELSE Add32(clock, txpk.tmst),
         modulation |->
             [frequency |-> txpk.freq * 100000,
              bandwidth |-> IF scan.count = 2
                            THEN (IF scan.bw = 500 THEN 2
                                  ELSE IF scan.bw = 250 THEN 1 ELSE 0)
                            ELSE 0,
              spreading_factor |-> IF scan.count = 2 THEN scan.sf ELSE 0,
              coding_rate |-> txpk.codr_den - 4,
              invert_polarity |-> txpk.ipol],
         payload_size |-> decode_base64(txpk.data.len, txpk.data.pad,
                                        LORA_MAX_PAYLOAD_SIZE, 0, 0)]

\* sendto of a TX_ACK datagram
SendTxAck(out, datagram) ==
    [out EXCEPT !.tx_ack = Append(@, datagram)]

\* send_tx_ack with the two token bytes written in the opposite order
send_tx_ack_swapped(token, error, id) ==
    [type |-> "TX_ACK", b1 |-> token % 256, b2 |-> (token \div 256) % 256,
     error |-> error, id |-> id]

\* send_tx_ack: the TX_ACK datagram, its header bytes 1 and 2 cut from the
\* token, error "NONE" for a NULL error (id is the history's name for the
\* request the acknowledgement answers, 0 when no request was built)
send_tx_ack(token, error, id) ==
    [type |-> "TX_ACK", b1 |-> (token \div 256) % 256, b2 |-> token % 256,
     error |-> error, id |-> id]

----------------------------------------------------------------------------
(* Downlink requests: handle_pull_resp -> lora_gateway_send ->             *)
(* channel_manager_schedule_tx                                             *)

\* xQueueSend(s_cm.tx_queue, packet, pdMS_TO_TICKS(100)) in
\* channel_manager_schedule_tx finds room in the queue
channel_manager_schedule_tx(queue) ==
    Len(queue) < GATEWAY_TX_QUEUE_SIZE

\* variant: lora_gateway_send without its test of s_gw.running
lora_gateway_send_unchecked(packet) ==
    IF s_cm.running
    THEN s_gw' = [s_gw EXCEPT !.stats.tx_total = @ + 1]
    ELSE s_gw' = [s_gw EXCEPT !.stats.tx_total = @ + 1,
                              !.stats.tx_fail = @ + 1]

\* lora_gateway_send up to the xQueueSend of channel_manager_schedule_tx,
\* or to its return when that is not reached: tx_total++, and tx_fail++
\* when the manager is not running
lora_gateway_send(packet) ==
    IF ~s_gw.running THEN UNCHANGED s_gw
    ELSE IF s_cm.running
    THEN s_gw' = [s_gw EXCEPT !.stats.tx_total = @ + 1]
    ELSE s_gw' = [s_gw EXCEPT !.stats.tx_total = @ + 1,
                              !.stats.tx_fail = @ + 1]

\* what handle_pull_resp sees of that call: an error returned at once, or
\* "xQueueSend" when the call has reached the queue
lora_gateway_send_result ==
    IF s_gw.running /\ s_cm.running THEN "xQueueSend"
    ELSE "ESP_ERR_INVALID_STATE"

\* the error string handle_pull_resp passes to send_tx_ack
TxAckError(ret) == IF ret = "ESP_OK" THEN "NONE" ELSE "TX_FAILED"

IdleRxTask == [pc |-> "idle", packet |-> NoPacket, token |-> 0]

\* the checks at the head of handle_pull_resp without the test of txpk
ParseErrorNoTxpkTest(d) ==
    IF d.json = "invalid" THEN "INVALID_JSON" ELSE "NONE"

\* the checks at the head of handle_pull_resp: the error string of the
\* TX_ACK they send, "NONE" when they pass
ParseError(d) ==
    IF d.json = "invalid" THEN "INVALID_JSON"
    ELSE IF d.json = "no_txpk" THEN "MISSING_TXPK"
    ELSE "NONE"

\* the forwarder's rx_task receives the PULL_RESP datagram d and runs
\* handle_pull_resp on it
HandlePullResp(d) ==
    /\ s_pf.running
    /\ pfw.pc = "idle"
    /\ events < MaxEvents
    /\ events' = events + 1
    /\ LET token == (d.b1 * 256) + d.b2
           noted == [hist EXCEPT !.pull_resps = @ + 1,
                                 !.pull_resp = PullRespNote(d)]
       IN  CASE ParseError(d) # "NONE" ->
                  /\ udp_out' = SendTxAck(udp_out,
                                       send_tx_ack(token, ParseError(d), 0))
                  /\ hist' = noted
                  /\ UNCHANGED << s_gw, tx_queue, pfw >>
             [] OTHER ->
                  LET tx_pkt == tx_pkt_of(d.txpk, hist.scheduled + 1)
                      ret == lora_gateway_send_result
                  IN  /\ hist.scheduled < MaxDownlinks
                      /\ hist' = [noted EXCEPT !.scheduled = @ + 1]
                      /\ lora_gateway_send(tx_pkt)
                      /\ UNCHANGED tx_queue
                      /\ IF ret = "xQueueSend"
                         THEN /\ pfw' = [pc |-> "queue_send",
                                         packet |-> tx_pkt, token |-> token]
                              /\ UNCHANGED udp_out
                         ELSE /\ udp_out' = SendTxAck(udp_out,
                                     send_tx_ack(token, TxAckError(ret),
                                                 tx_pkt.id))
                              /\ UNCHANGED pfw
    /\ UNCHANGED << radio, s_cm, txw, rx_queue, rxw, s_pf, uplink_queue,
                    main_pc, clock >>
    /\ UNCHANGED << pftx, tmr, b64, app, s_net >>

\* xQueueSend returns to rx_task. With room in the queue (at once, or after
\* the TX worker has taken a request while rx_task was blocked) the packet
\* is queued, channel_manager_schedule_tx and lora_gateway_send return
\* ESP_OK and handle_pull_resp sends the TX_ACK; on a queue that stayed
\* full for 100 ms it is ESP_ERR_NO_MEM, tx_fail++ and "TX_FAILED"
TxQueueSend ==
    /\ pfw.pc = "queue_send"
    /\ IF channel_manager_schedule_tx(tx_queue)
       THEN /\ tx_queue' = Append(tx_queue, pfw.packet)
            /\ udp_out' = SendTxAck(udp_out,
                              send_tx_ack(pfw.token, TxAckError("ESP_OK"),
                                          pfw.packet.id))
            /\ UNCHANGED s_gw
       ELSE /\ s_gw' = [s_gw EXCEPT !.stats.tx_fail = @ + 1]
            /\ udp_out' = SendTxAck(udp_out,
                              send_tx_ack(pfw.token,
                                          TxAckError("ESP_ERR_NO_MEM"),
                                          pfw.packet.id))
            /\ UNCHANGED tx_queue
    /\ pfw' = IdleRxTask
    /\ UNCHANGED << radio, s_cm, txw, rx_queue, rxw, s_pf, uplink_queue,
                    main_pc, clock, hist, events >>
    /\ UNCHANGED << pftx, tmr, b64, app, s_net >>

----------------------------------------------------------------------------
(* The TX worker: tx_task of the channel manager *)

\* while (s_cm.running) is false: the task deletes itself
TxTaskExit ==
    /\ txw.pc = "loop"
    /\ ~s_cm.running
    /\ txw' = [txw EXCEPT !.pc = "exited"]
    /\ UNCHANGED << radio, s_cm, tx_queue, s_gw, rx_queue, rxw, s_pf, pfw, udp_out,
                    uplink_queue, main_pc, clock, hist, events >>
    /\ UNCHANGED << pftx, tmr, b64, app, s_net >>

\* xQueueReceive returns a packet
TxTaskReceive ==
    /\ txw.pc = "loop"
    /\ s_cm.running
    /\ tx_queue # << >>
    /\ txw' = [txw EXCEPT !.pc = "take", !.packet = Head(tx_queue)]
    /\ tx_queue' = Tail(tx_queue)
    /\ UNCHANGED << radio, s_cm, s_gw, rx_queue, rxw, s_pf, pfw, udp_out, uplink_queue,
                    main_pc, clock, hist, events >>
    /\ UNCHANGED << pftx, tmr, b64, app, s_net >>

\* xSemaphoreTake(tx_mutex); tx_busy = true
TxTaskTake ==
    /\ txw.pc = "take"
    /\ ~s_cm.tx_mutex
    /\ s_cm' = [s_cm EXCEPT !.tx_mutex = TRUE, !.tx_busy = TRUE]
    /\ txw' = [txw EXCEPT !.pc = "check"]
    /\ UNCHANGED << radio, tx_queue, s_gw, rx_queue, rxw, s_pf, pfw, udp_out, uplink_queue,
                    main_pc, clock, hist, events >>
    /\ UNCHANGED << pftx, tmr, b64, app, s_net >>

\* variant: the too-late threshold one microsecond further out
TxTimingLate(immediate, delay) ==
    IF immediate THEN "send"
    ELSE IF delay > 0 /\ delay < MAX_TX_DELAY_US THEN "wait"
    ELSE IF delay < (-TOO_LATE_US) - 1 THEN "skip"
    ELSE "send"

\* the timing branch of tx_task for a packet with the given immediate flag
\* and delay = (int32_t)(tx_timestamp - current)
TxTiming(immediate, delay) ==
    IF immediate THEN "send"
    ELSE IF delay > 0 /\ delay < MAX_TX_DELAY_US THEN "wait"
    ELSE IF delay < -TOO_LATE_US THEN "skip"
    ELSE "send"

\* "Check timing": reads the clock once and waits, skips or goes on
TxTaskCheck ==
    /\ txw.pc = "check"
    /\ LET delay == Sub32(txw.packet.tx_timestamp, clock)
           branch == TxTiming(txw.packet.immediate, delay)
       IN  CASE branch = "wait" ->
                  /\ txw' = [txw EXCEPT !.pc = "wait", !.now = clock,
                                        !.delay = delay]
                  /\ UNCHANGED << s_cm, hist >>
             [] branch = "skip" ->
                  /\ s_cm' = [s_cm EXCEPT !.tx_busy = FALSE,
                                          !.tx_mutex = FALSE]
                  /\ hist' = [hist EXCEPT !.too_late = @ \cup {txw.packet.id}]
                  /\ txw' = [txw EXCEPT !.pc = "loop", !.packet = NoPacket]
             [] OTHER ->
                  /\ txw' = [txw EXCEPT !.pc = "xmit",
                                !.now = IF txw.packet.immediate THEN 0
                                        ELSE clock,
                                !.delay = IF txw.packet.immediate THEN 0
                                          ELSE delay]
                  /\ UNCHANGED << s_cm, hist >>
    /\ UNCHANGED << radio, tx_queue, s_gw, rx_queue, rxw, s_pf, pfw, udp_out, uplink_queue,
                    main_pc, clock, events >>
    /\ UNCHANGED << pftx, tmr, b64, app, s_net >>

\* the condition of the wait loop: lora_gateway_get_timestamp() < tx_timestamp
StillWaiting(now, tx_timestamp) ==
    ULt(now, tx_timestamp)

\* one iteration of "Wait until timestamp": reads the clock again
TxTaskWait ==
    /\ txw.pc = "wait"
    /\ txw' = [txw EXCEPT
                  !.now = clock,
                  !.pc = IF StillWaiting(clock, txw.packet.tx_timestamp)
                         THEN "wait" ELSE "xmit"]
    /\ UNCHANGED << radio, s_cm, tx_queue, s_gw, rx_queue, rxw, s_pf, pfw, udp_out,
                    uplink_queue, main_pc, clock, hist, events >>
    /\ UNCHANGED << pftx, tmr, b64, app, s_net >>

\* "Prepare SX1276 packet": the sx1276_tx_packet_t built from the request
sx_packet_of(packet) ==
    [data |-> packet.id,
     length |-> packet.payload_size,
     frequency |-> packet.modulation.frequency,
     sf |-> packet.modulation.spreading_factor,
     bw |-> packet.modulation.bandwidth,
     cr |-> packet.modulation.coding_rate,
     invert_iq |-> packet.modulation.invert_polarity,
     tx_delay_us |-> 0]

\* sx1276_transmit is entered: the device mutex is taken and the chip loaded
TxTaskTransmit ==
    /\ txw.pc = "xmit"
    /\ ~radio["tx_radio"].mutex
    /\ radio' = [radio EXCEPT !["tx_radio"] =
                     sx1276_transmit_load(@, sx_packet_of(txw.packet))]
    /\ hist' = [hist EXCEPT !.transmitted = @ \cup {txw.packet.id}]
    /\ txw' = [txw EXCEPT !.pc = "xmit_start"]
    /\ UNCHANGED << s_cm, tx_queue, s_gw, rx_queue, rxw, s_pf, pfw, udp_out, uplink_queue,
                    main_pc, clock, events >>
    /\ UNCHANGED << pftx, tmr, b64, app, s_net >>

\* sx1276_transmit returns: the chip is in TX, the device mutex is free
TxTaskTransmitStart ==
    /\ txw.pc = "xmit_start"
    /\ radio' = [radio EXCEPT !["tx_radio"] = sx1276_transmit_start(@)]
    /\ txw' = [txw EXCEPT !.pc = "await", !.timeout = 0]
    /\ UNCHANGED << s_cm, tx_queue, s_gw, rx_queue, rxw, s_pf, pfw, udp_out, uplink_queue,
                    main_pc, clock, hist, events >>
    /\ UNCHANGED << pftx, tmr, b64, app, s_net >>

\* "Wait for TX complete (with timeout)": one iteration of the loop, or its
\* exit (a timeout is only logged) followed by xSemaphoreGive(tx_mutex)
TxTaskAwait ==
    /\ txw.pc = "await"
    /\ IF s_cm.tx_busy /\ txw.timeout < TX_DONE_TIMEOUT_MS
       THEN /\ txw' = [txw EXCEPT !.timeout = @ + TimeoutStep]
            /\ UNCHANGED s_cm
       ELSE /\ s_cm' = [s_cm EXCEPT !.tx_mutex = FALSE]
            /\ txw' = [txw EXCEPT !.pc = "loop", !.packet = NoPacket,
                                  !.now = 0, !.delay = 0, !.timeout = 0]
    /\ UNCHANGED << radio, tx_queue, s_gw, rx_queue, rxw, s_pf, pfw, udp_out, uplink_queue,
                    main_pc, clock, hist, events >>
    /\ UNCHANGED << pftx, tmr, b64, app, s_net >>

----------------------------------------------------------------------------
(* DIO0 interrupts *)

\* the channel manager's rx_callback: the lora_rx_packet_t it builds
rx_callback(packet) ==
    [payload |-> packet.data, payload_size |-> packet.length,
     rssi |-> packet.rssi, crc_ok |-> packet.crc_ok,
     frequency |-> packet.frequency, spreading_factor |-> packet.sf,
     bandwidth |-> packet.bw, coding_rate |-> packet.cr]

\* lora_gateway_rx_handler: statistics, then xQueueSendFromISR (a full queue
\* drops the packet)
lora_gateway_rx_handler(packet) ==
    IF ~s_gw.running
    THEN UNCHANGED << s_gw, rx_queue >>
    ELSE /\ s_gw' = [s_gw EXCEPT
                !.stats.rx_total = @ + 1,
                !.stats.rx_ok = IF packet.crc_ok THEN @ + 1 ELSE @,
                !.stats.rx_bad = IF packet.crc_ok THEN @ ELSE @ + 1]
         /\ rx_queue' = IF Len(rx_queue) < GATEWAY_RX_QUEUE_SIZE
                        THEN Append(rx_queue, packet)
                        ELSE rx_queue

\* dio0_isr_handler of radio r reads IRQ_RX_DONE (raised by a chip in
\* continuous receive), with or without IRQ_PAYLOAD_CRC_ERROR
Dio0IsrRxDone(r, length, crc_error, rssi_reg) ==
    /\ radio[r].op_mode_reg = "RX_CONTINUOUS"
    /\ events < MaxEvents
    /\ events' = events + 1
    /\ hist' = [hist EXCEPT !.frames = @ + 1,
                            !.bad_frames = IF crc_error
                                           THEN @ \cup {hist.frames + 1}
                                           ELSE @]
    /\ IF radio[r].rx_callback
       THEN lora_gateway_rx_handler(
                rx_callback(isr_rx_packet(radio[r], hist.frames + 1,
                                          length, crc_error, rssi_reg)))
       ELSE UNCHANGED << s_gw, rx_queue >>
    /\ radio' = [radio EXCEPT ![r] = isr_rx_done(@)]
    /\ UNCHANGED << s_cm, tx_queue, txw, rxw, s_pf, pfw, udp_out, uplink_queue, main_pc,
                    clock >>
    /\ UNCHANGED << pftx, tmr, b64, app, s_net >>

\* dio0_isr_handler of radio r reads IRQ_TX_DONE (raised by a chip that was
\* put in TX): tx_done_callback clears tx_busy, the radio returns to standby
Dio0IsrTxDone(r) ==
    /\ radio[r].op_mode_reg = "TX"
    /\ radio' = [radio EXCEPT ![r] = isr_tx_done(@)]
    /\ s_cm' = IF radio[r].tx_callback
               THEN [s_cm EXCEPT !.tx_busy = FALSE]
               ELSE s_cm
    /\ UNCHANGED << tx_queue, txw, s_gw, rx_queue, rxw, s_pf, pfw, udp_out, uplink_queue,
                    main_pc, clock, hist, events >>
    /\ UNCHANGED << pftx, tmr, b64, app, s_net >>

----------------------------------------------------------------------------
(* Uplink side: rx_process_task, and the forwarder as far as its liveness  *)
(* flag and its uplink queue                                               *)

\* pkt_fwd_send_uplink putting the packet at the front of the queue
pkt_fwd_send_uplink_front(queue, packet) ==
    IF s_pf.running /\ Len(queue) < UPLINK_QUEUE_SIZE
    THEN << packet >> \o queue
    ELSE queue

\* pkt_fwd_send_uplink: the uplink queue after the call
pkt_fwd_send_uplink(queue, packet) ==
    IF s_pf.running /\ Len(queue) < UPLINK_QUEUE_SIZE
    THEN Append(queue, packet)
    ELSE queue

\* rx_process_task calling the user callback for every packet
rx_process_delivers_any(packet) == TRUE

\* rx_process_task calls the user callback (set by app_main) for a packet
rx_process_delivers(packet) == packet.crc_ok

\* rx_process_task takes one packet from the RX queue; a CRC-good one goes
\* to rx_packet_handler, which forwards it when the server is connected
RxProcessTask ==
    /\ rxw = "loop"
    /\ s_gw.running
    /\ rx_queue # << >>
    /\ rx_queue' = Tail(rx_queue)
    /\ uplink_queue' = IF rx_process_delivers(Head(rx_queue))
                            /\ s_pf.connected
                       THEN pkt_fwd_send_uplink(uplink_queue, Head(rx_queue))
                       ELSE uplink_queue
    /\ UNCHANGED << radio, s_cm, tx_queue, txw, s_gw, rxw, s_pf, pfw, udp_out, main_pc,
                    clock, hist, events >>
    /\ UNCHANGED << pftx, tmr, b64, app, s_net >>

\* while (s_gw.running) is false: rx_process_task deletes itself
RxProcessExit ==
    /\ rxw = "loop"
    /\ ~s_gw.running
    /\ rxw' = "exited"
    /\ UNCHANGED << radio, s_cm, tx_queue, txw, s_gw, rx_queue, s_pf, pfw, udp_out,
                    uplink_queue, main_pc, clock, hist, events >>
    /\ UNCHANGED << pftx, tmr, b64, app, s_net >>

\* app_main: pkt_fwd_init and pkt_fwd_start succeed
PktFwdStart ==
    /\ ~s_pf.running
    /\ s_pf' = [s_pf EXCEPT !.running = TRUE]
    /\ UNCHANGED << radio, s_cm, tx_queue, txw, s_gw, rx_queue, rxw, pfw,
                    uplink_queue, udp_out, main_pc, clock, hist, events >>
    /\ UNCHANGED << pftx, tmr, b64, app, s_net >>

\* the forwarder's rx_task receives a PULL_ACK
PullAck ==
    /\ s_pf.running
    /\ pfw.pc = "idle"
    /\ events < MaxEvents
    /\ s_pf' = [s_pf EXCEPT !.connected = TRUE]
    /\ events' = IF s_pf' = s_pf THEN events ELSE events + 1
    /\ UNCHANGED << radio, s_cm, tx_queue, txw, s_gw, rx_queue, rxw, pfw,
                    uplink_queue, udp_out, main_pc, clock, hist >>
    /\ UNCHANGED << pftx, tmr, b64, app, s_net >>

\* keepalive_callback; stale is the outcome of
\* now - s_pf.last_pull_ack > 30000000
KeepaliveCallback(stale) ==
    /\ s_pf.running
    /\ events < MaxEvents
    /\ s_pf' = [s_pf EXCEPT !.connected = IF stale THEN FALSE ELSE @]
    /\ events' = IF s_pf' = s_pf THEN events ELSE events + 1
    /\ UNCHANGED << radio, s_cm, tx_queue, txw, s_gw, rx_queue, rxw, pfw,
                    uplink_queue, udp_out, main_pc, clock, hist >>
    /\ UNCHANGED << pftx, tmr, b64, app, s_net >>

\* decimal digits of a payload size
Digits(n) == IF n < 10 THEN 1 ELSE IF n < 100 THEN 2 ELSE 3

\* strlen of what encode_base64 writes for len bytes
encode_base64_len(len) == 4 * ((len + 2) \div 3)

\* a lower bound of the length of one rxpk item as cJSON_PrintUnformatted
\* prints it: the member names and fixed strings with one-digit tmst, chan,
\* rfch, rssi and lsnr, a three-digit freq and the shortest datr
\* (RXPK_ITEM_MIN_LEN), the digits of "size", the base64 text of "data"
RxpkItemLen(pkt) ==
    RXPK_ITEM_MIN_LEN + Digits(pkt.payload_size)
        + encode_base64_len(pkt.payload_size)

RECURSIVE SumItemLen(_)
SumItemLen(batch) ==
    IF batch = << >> THEN 0
    ELSE RxpkItemLen(Head(batch)) + SumItemLen(Tail(batch))

\* strlen(json) in send_push_data: {"rxpk":[ item , item ... ]}
PushDataJsonLen(batch) ==
    RXPK_WRAPPER_LEN + SumItemLen(batch) + (Len(batch) - 1)

\* send_push_data goes past its "PUSH_DATA too large" test
PushDataFits(batch) ==
    ~(PUSH_DATA_HEADER_LEN + PushDataJsonLen(batch) >= UDP_BUFFER_SIZE)

\* send_push_data: the datagrams sent, after the call (a batch that is too
\* large is not sent at all)
send_push_data(out, batch) ==
    IF PushDataFits(batch)
    THEN [out EXCEPT !.push_data = << [type |-> "PUSH_DATA", rxpk |-> batch] >>]
    ELSE out

\* the batch the forwarder's tx_task collects from the uplink queue: up to
\* MAX_UPLINK_BATCH packets
UplinkBatch(queue) ==
    SubSeq(queue, 1, IF Len(queue) < MAX_UPLINK_BATCH
                     THEN Len(queue) ELSE MAX_UPLINK_BATCH)

\* the forwarder's tx_task drains a batch and calls send_push_data on it
PfTxTask ==
    /\ s_pf.running
    /\ uplink_queue # << >>
    /\ LET batch == UplinkBatch(uplink_queue)
       IN  /\ uplink_queue' = SubSeq(uplink_queue, Len(batch) + 1,
                                     Len(uplink_queue))
           /\ udp_out' = send_push_data(udp_out, batch)
           /\ s_pf' = [s_pf EXCEPT !.push_sent =
                           IF PushDataFits(batch) THEN @ + 1 ELSE @]
           /\ hist' = [hist EXCEPT !.pushed =
                           IF PushDataFits(batch)
                           THEN batch[Len(batch)].payload ELSE @]
    /\ UNCHANGED << radio, s_cm, tx_queue, txw, s_gw, rx_queue, rxw, pfw,
                    main_pc, clock, events >>
    /\ UNCHANGED << pftx, tmr, b64, app, s_net >>

----------------------------------------------------------------------------

Next ==
    \/ GatewayStart
    \/ ChannelManagerStartTx
    \/ GatewayStartDone
    \/ GatewayStop
    \/ ChannelManagerStop
    \/ ChannelManagerStopTx
    \/ \E enabled \in BOOLEAN : SetHopping(enabled)
    \/ HopTimerCallback
    \/ \E d \in ClockSteps : Tick(d)
    \/ \E d \in PullRespDatagrams : HandlePullResp(d)
    \/ TxQueueSend
    \/ TxTaskExit
    \/ TxTaskReceive
    \/ TxTaskTake
    \/ TxTaskCheck
    \/ TxTaskWait
    \/ TxTaskTransmit
    \/ TxTaskTransmitStart
    \/ TxTaskAwait
    \/ \E r \in Radios, length \in RxSizes, crc_error \in BOOLEAN,
          rssi_reg \in RssiRegs :
           Dio0IsrRxDone(r, length, crc_error, rssi_reg)
    \/ \E r \in Radios : Dio0IsrTxDone(r)
    \/ RxProcessTask
    \/ RxProcessExit
    \/ PktFwdStart
    \/ PullAck
    \/ \E stale \in BOOLEAN : KeepaliveCallback(stale)
    \/ PfTxTask

Spec == Init /\ [][Next]_vars

\* A running gateway whose receive queue has been filled by
\* GATEWAY_RX_QUEUE_SIZE good frames before rx_process_task was scheduled;
\* those arrivals leave one environment event to the behaviour
InitBacklog ==
    /\ radio = [r \in Radios |->
                  IF r = "rx_radio"
                  THEN sx1276_start_rx(sx1276_init(RxRadioConfig))
                  ELSE sx1276_set_mode(sx1276_init(TxRadioConfig), "STANDBY")]
    /\ s_cm = [running |-> TRUE, tx_busy |-> FALSE, tx_mutex |-> FALSE,
               hopping_enabled |-> FALSE, hop_timer |-> FALSE,
               current_channel |-> 0]
    /\ tx_queue = << >>
    /\ txw = NewTxTask
    /\ s_gw = [initialized |-> TRUE, running |-> TRUE,
               stats |-> [ZeroStats EXCEPT
                             !.rx_total = GATEWAY_RX_QUEUE_SIZE,
                             !.rx_ok = GATEWAY_RX_QUEUE_SIZE]]
    /\ rx_queue = [i \in 1..GATEWAY_RX_QUEUE_SIZE |->
                     rx_callback(isr_rx_packet(
                         sx1276_start_rx(sx1276_init(RxRadioConfig)),
                         i, LORA_MAX_PAYLOAD_SIZE, FALSE,
                         CHOOSE rssi_reg \in RssiRegs : TRUE))]
    /\ rxw = "loop"
    /\ s_pf = [running |-> TRUE, connected |-> FALSE, push_sent |-> 0]
    /\ pfw = [pc |-> "idle", packet |-> NoPacket, token |-> 0]
    /\ uplink_queue = << >>
    /\ udp_out = [tx_ack |-> << >>, push_data |-> << >>]
    /\ main_pc = "idle"
    /\ clock \in BootClocks
    /\ hist = [scheduled |-> 0, frames |-> GATEWAY_RX_QUEUE_SIZE,
               transmitted |-> {}, too_late |-> {}, pushed |-> 0,
               pull_resps |-> 0, pull_resp |-> NoPullResp,
               bad_frames |-> {}]
    /\ events = MaxEvents - 1
    /\ pftx = NoPfTxTask
    /\ tmr = IdleTimerTask
    /\ b64 = NoBase64
    /\ app = IdleApp
    /\ s_net = StartedNet

\* Spec, together with the behaviours that start from the backlog
SpecBacklog == (Init \/ InitBacklog) /\ [][Next]_vars

\* A running gateway and forwarder whose TX queue has been filled by
\* GATEWAY_TX_QUEUE_SIZE immediate downlinks on the RX2 default modulation
\* before the TX worker was scheduled; those PULL_RESP datagrams leave one
\* environment event to the behaviour, and the history and the datagrams
\* sent are counted from this state on
InitTxBacklog ==
    /\ radio = [r \in Radios |->
                  IF r = "rx_radio"
                  THEN sx1276_start_rx(sx1276_init(RxRadioConfig))
                  ELSE sx1276_set_mode(sx1276_init(TxRadioConfig), "STANDBY")]
    /\ s_cm = [running |-> TRUE, tx_busy |-> FALSE, tx_mutex |-> FALSE,
               hopping_enabled |-> FALSE, hop_timer |-> FALSE,
               current_channel |-> 0]
    /\ tx_queue = [i \in 1..GATEWAY_TX_QUEUE_SIZE |->
                     LET m == CHOOSE mm \in TxModulations :
                                  mm.spreading_factor = SX1276_SF_12
                     IN  tx_pkt_of(Txpk(TRUE, 0, m, DatrOf(m), DataShort),
                                   MaxDownlinks + i)]
    /\ txw = NewTxTask
    /\ s_gw = [initialized |-> TRUE, running |-> TRUE,
               stats |-> [ZeroStats EXCEPT
                             !.tx_total = GATEWAY_TX_QUEUE_SIZE]]
    /\ rx_queue = << >>
    /\ rxw = "loop"
    /\ s_pf = [running |-> TRUE, connected |-> TRUE, push_sent |-> 0]
    /\ pfw = IdleRxTask
    /\ uplink_queue = << >>
    /\ udp_out = [tx_ack |-> << >>, push_data |-> << >>]
    /\ main_pc = "idle"
    /\ clock \in BootClocks
    /\ hist = [scheduled |-> 0, frames |-> 0, transmitted |-> {},
               too_late |-> {}, pushed |-> 0, pull_resps |-> 0,
               pull_resp |-> NoPullResp, bad_frames |-> {}]
    /\ events = MaxEvents - 1
    /\ pftx = NoPfTxTask
    /\ tmr = IdleTimerTask
    /\ b64 = NoBase64
    /\ app = IdleApp
    /\ s_net = StartedNet

\* Spec, together with the behaviours that start from the TX backlog
SpecTxBacklog == (Init \/ InitTxBacklog) /\ [][Next]_vars

----------------------------------------------------------------------------
(* Radio roles *)

RxRadio == radio["rx_radio"]
TxRadio == radio["tx_radio"]

\* both the chip's REG_OP_MODE and the driver's cached mode of a device
ModesOf(dev) == {dev.op_mode_reg, dev.current_mode}

\* C1: while the channel manager is running (channel_manager_start has
\* returned OK and channel_manager_stop has not been called), the RX radio
\* is in RxContinuous, register and cached mode alike: RX_DONE interrupts,
\* downlink scheduling and transmission, hop ticks, a full RX queue and a
\* disconnected forwarder leave it there.
C1_RxRadioStaysInRxContinuous ==
    s_cm.running => ModesOf(RxRadio) = {"RX_CONTINUOUS"}

\* a frame has just been dropped on a full RX queue, with the forwarder
\* disconnected, and the manager is still running
C1_Witness ==
    /\ s_cm.running
    /\ hist.frames > GATEWAY_RX_QUEUE_SIZE
    /\ Len(rx_queue) = GATEWAY_RX_QUEUE_SIZE
    /\ s_gw.stats.rx_total = hist.frames
    /\ ~s_pf.connected

\* C2: at most one of the two radios is in RxContinuous in any state, and
\* while the channel manager is running the RX radio is the one that is.
C2_AtMostOneReceiver ==
    LET receiving == {r \in Radios : "RX_CONTINUOUS" \in ModesOf(radio[r])}
    IN  /\ Cardinality(receiving) <= 1
        /\ s_cm.running => receiving = {"rx_radio"}

\* the manager is running and the TX radio is transmitting after a frame
\* was received
C2_Witness ==
    /\ s_cm.running
    /\ hist.frames > 0
    /\ TxRadio.op_mode_reg = "TX"
    /\ RxRadio.op_mode_reg = "RX_CONTINUOUS"

----------------------------------------------------------------------------
(* Downlink timing *)

\* the TX worker takes a step of its own (it is not being deleted)
TxWorkerSteps == txw' # txw /\ txw'.pc # "deleted"

\* the wrap-aware delta of the packet in the worker's hands at the clock
\* reading the timing check is about to make
DeltaAtCheck == Sub32(txw.packet.tx_timestamp, clock)

\* the packet in the worker's hands went through the wait loop
Waited ==
    /\ ~txw.packet.immediate
    /\ txw.delay > 0
    /\ txw.delay < MAX_TX_DELAY_US

\* C4: a non-immediate downlink whose wrap-aware delta at the timing check
\* exceeds 5,000,000 us is discarded: the worker returns to the queue
\* without touching the radio, and tx_fail grows by one.
C4_TooEarlyDiscarded ==
    [][(txw.pc = "check" /\ ~txw.packet.immediate
            /\ DeltaAtCheck > MAX_TX_DELAY_US /\ TxWorkerSteps)
       => /\ txw'.pc = "loop"
          /\ radio' = radio
          /\ txw.packet.id \notin hist'.transmitted
          /\ s_gw'.stats.tx_fail = s_gw.stats.tx_fail + 1]_vars

\* C5: a non-immediate downlink whose wrap-aware delta at the timing check
\* is below -100000 us is never handed to sx1276_transmit; the worker
\* clears tx_busy, releases tx_mutex and returns to the queue.
C5_TooLateSkipped ==
    /\ [](hist.too_late \cap hist.transmitted = {})
    /\ [][(txw.pc = "check" /\ ~txw.packet.immediate
             /\ DeltaAtCheck < -TOO_LATE_US /\ TxWorkerSteps)
        => /\ txw'.pc = "loop"
           /\ ~s_cm'.tx_busy
           /\ ~s_cm'.tx_mutex
           /\ radio' = radio
           /\ txw.packet.id \in hist'.too_late
           /\ txw.packet.id \notin hist'.transmitted]_vars

\* a too-late packet has been skipped and the worker is back at its queue,
\* tx_busy and tx_mutex clear
C5_Witness ==
    /\ hist.too_late # {}
    /\ hist.transmitted = {}
    /\ txw.pc = "loop"
    /\ ~s_cm.tx_busy
    /\ ~s_cm.tx_mutex

\* C6: tx_collision equals the number of downlinks the worker has
\* discarded as too late (the statistics are never reset here).
C6_CollisionCountsTooLate ==
    s_gw.stats.tx_collision = Cardinality(hist.too_late)

\* C7: a downlink that enters the wait loop stays in it only while the
\* wrap-aware delta at the latest clock reading is positive, and leaves it
\* for the radio only at a reading whose wrap-aware delta is <= 0.
C7_WrapAwareWait ==
    /\ txw.pc = "wait" => Sub32(txw.packet.tx_timestamp, txw.now) > 0
    /\ (txw.pc = "xmit" /\ Waited)
           => Sub32(txw.packet.tx_timestamp, txw.now) <= 0

\* C8: while the TX radio has a transmission in flight (the chip is in TX
\* and its TX_DONE has not been handled) the worker holds tx_mutex, and
\* sx1276_transmit is not entered for another packet.
C8_InFlightHoldsMutex ==
    /\ [](TxRadio.op_mode_reg = "TX" => s_cm.tx_mutex)
    /\ [][(txw.pc = "xmit" /\ txw'.pc = "xmit_start")
            => TxRadio.op_mode_reg # "TX"]_vars

\* C9: when the wait for TX_DONE ends at its 5 s ceiling with tx_busy still
\* set, tx_fail grows by one.
C9_TimeoutCountsTxFail ==
    [][(txw.pc = "await" /\ txw'.pc = "loop"
            /\ s_cm.tx_busy /\ txw.timeout >= TX_DONE_TIMEOUT_MS)
       => s_gw'.stats.tx_fail = s_gw.stats.tx_fail + 1]_vars

\* C10: when sx1276_transmit switches the TX radio to Tx, the chip's
\* frequency, spreading factor, bandwidth, coding rate and IQ inversion are
\* those of the request being transmitted.
C10_TxUsesRequestModulation ==
    [][(txw.pc = "xmit_start" /\ txw'.pc = "await")
       => LET m == txw.packet.modulation
              d == radio'["tx_radio"]
          IN  /\ d.op_mode_reg = "TX"
              /\ d.reg_frf = Frf(m.frequency)
              /\ d.reg_sf = m.spreading_factor
              /\ Sx1276BwKHz(d.reg_bw) = ModulationBwKHz(m.bandwidth)
              /\ d.reg_cr = m.coding_rate
              /\ d.reg_invert_tx = m.invert_polarity]_vars

----------------------------------------------------------------------------
(* TX_ACK *)

\* C11: the TX_ACK reflects the fate of the downlink: a TX_ACK with no
\* error is sent only for a downlink that is accepted and not discarded
\* later, and a downlink the TX worker discards as too late is answered by
\* a TX_ACK with error TOO_LATE (TOO_EARLY for one discarded as too early;
\* the worker never discards for that reason).
C11_TxAckReflectsFate ==
    \A i \in DOMAIN udp_out.tx_ack :
        LET ack == udp_out.tx_ack[i]
        IN  ack.id \in hist.too_late => ack.error = "TOO_LATE"

\* C12: every PULL_RESP datagram the forwarder's rx_task handles is
\* answered by exactly one TX_ACK datagram (the only datagram without its
\* TX_ACK is the one whose handler is still inside xQueueSend), and that
\* TX_ACK carries the header bytes 1 and 2, the token, of the PULL_RESP.
C12_OneTxAckSameToken ==
    /\ [](Len(udp_out.tx_ack) + (IF pfw.pc = "queue_send" THEN 1 ELSE 0)
             = hist.pull_resps)
    /\ [][udp_out'.tx_ack # udp_out.tx_ack
          => /\ Len(udp_out'.tx_ack) = Len(udp_out.tx_ack) + 1
             /\ SubSeq(udp_out'.tx_ack, 1, Len(udp_out.tx_ack))
                    = udp_out.tx_ack
             /\ LET ack == udp_out'.tx_ack[Len(udp_out'.tx_ack)]
                IN  /\ ack.type = "TX_ACK"
                    /\ ack.b1 = hist'.pull_resp.b1
                    /\ ack.b2 = hist'.pull_resp.b2]_vars

\* a PULL_RESP that found the TX queue full has been answered, after the
\* wait in xQueueSend, by one TX_ACK with its token
C12_Witness ==
    /\ hist.pull_resps = 1
    /\ pfw.pc = "idle"
    /\ Len(tx_queue) = GATEWAY_TX_QUEUE_SIZE
    /\ Len(udp_out.tx_ack) = 1
    /\ udp_out.tx_ack[1].error = "TX_FAILED"
    /\ udp_out.tx_ack[1].b1 = hist.pull_resp.b1
    /\ udp_out.tx_ack[1].b2 = hist.pull_resp.b2
    /\ hist.pull_resp.b1 # hist.pull_resp.b2

\* the TX_ACK sent by the step
NewTxAck == udp_out'.tx_ack[Len(udp_out'.tx_ack)]

\* the step is rx_task handling a PULL_RESP datagram
PullRespStep == hist'.pull_resps = hist.pull_resps + 1

\* C13: a PULL_RESP whose JSON does not parse, or has no txpk object, is
\* answered by a TX_ACK with error INVALID_JSON, respectively MISSING_TXPK,
\* and changes nothing else: the TX queue, the statistics (tx_total and
\* tx_fail among them), the radios, the channel manager and the TX worker
\* are as before.
C13_ParseErrorOnlyAcks ==
    [][(PullRespStep /\ hist'.pull_resp.json \in {"invalid", "no_txpk"})
       => /\ Len(udp_out'.tx_ack) = Len(udp_out.tx_ack) + 1
          /\ NewTxAck.error = IF hist'.pull_resp.json = "invalid"
                              THEN "INVALID_JSON" ELSE "MISSING_TXPK"
          /\ tx_queue' = tx_queue
          /\ s_gw' = s_gw
          /\ radio' = radio
          /\ s_cm' = s_cm
          /\ txw' = txw
          /\ pfw' = pfw]_vars

\* a PULL_RESP without txpk has been answered with MISSING_TXPK while the
\* gateway was running with room in its TX queue, and nothing was submitted
C13_Witness ==
    /\ hist.pull_resp.json = "no_txpk"
    /\ s_gw.running
    /\ s_cm.running
    /\ tx_queue = << >>
    /\ s_gw.stats.tx_total = 0
    /\ udp_out.tx_ack # << >>
    /\ udp_out.tx_ack[Len(udp_out.tx_ack)].error = "MISSING_TXPK"

\* the latest PULL_RESP carried a txpk
LatestHasTxpk == hist.pull_resp.json = "txpk"

\* the request built from the latest PULL_RESP (the history names it
\* hist.scheduled) is neither in the TX queue nor in the TX worker's hands
LatestNotSubmitted ==
    /\ \A i \in DOMAIN tx_queue : tx_queue[i].id # hist.scheduled
    /\ txw.packet.id # hist.scheduled

\* C14: a PULL_RESP whose datr string does not have the form SF<n>BW<n>
\* is refused: no request is submitted to the channel manager for it,
\* nothing is transmitted for it, and its TX_ACK carries an error.
C14_MalformedDatrRefused ==
    (LatestHasTxpk /\ sscanf_datr(hist.pull_resp.datr).count # 2)
        => /\ LatestNotSubmitted
           /\ hist.scheduled \notin hist.transmitted
           /\ \A i \in DOMAIN udp_out.tx_ack :
                  udp_out.tx_ack[i].id = hist.scheduled
                      => udp_out.tx_ack[i].error # "NONE"

\* the number of bytes a base64 data field stands for: what decode_base64
\* returns when its output limit is out of reach
DecodedBytes(data) == decode_base64(data.len, data.pad, data.len, 0, 0)

\* C15: a PULL_RESP whose data field decodes to more than 255 bytes is
\* dropped: no request is enqueued for it and no payload, truncated or
\* not, is transmitted for it.
C15_OversizeDataDropped ==
    (LatestHasTxpk
         /\ DecodedBytes(hist.pull_resp.data) > LORA_MAX_PAYLOAD_SIZE)
        => /\ LatestNotSubmitted
           /\ hist.scheduled \notin hist.transmitted

----------------------------------------------------------------------------
(* Queue overflow *)

\* C16: with GATEWAY_TX_QUEUE_SIZE requests in the TX queue of a running
\* gateway, a further downlink is refused at once: rx_task is not left
\* waiting in xQueueSend, the queued requests are as before, tx_fail grows
\* by one and the TX_ACK reports the failure.
C16_TxQueueFullRefusedAtOnce ==
    [][(PullRespStep /\ hist'.pull_resp.json = "txpk"
            /\ s_gw.running /\ s_cm.running
            /\ Len(tx_queue) = GATEWAY_TX_QUEUE_SIZE)
       => /\ pfw'.pc = "idle"
          /\ tx_queue' = tx_queue
          /\ s_gw'.stats.tx_fail = s_gw.stats.tx_fail + 1
          /\ Len(udp_out'.tx_ack) = Len(udp_out.tx_ack) + 1
          /\ NewTxAck.error = "TX_FAILED"]_vars

\* the statistics that count every frame lora_gateway_rx_handler is given,
\* queued or not
ArrivalCounters == {"rx_total", "rx_ok", "rx_bad"}

\* C17: a frame the radio interrupt delivers while the RX queue holds
\* GATEWAY_RX_QUEUE_SIZE descriptors is discarded: the queued descriptors
\* are as before, and a drop counter (a statistic that does not count every
\* arrival) grows by exactly one.
C17_RxOverflowCounted ==
    [][(s_gw'.stats.rx_total = s_gw.stats.rx_total + 1
            /\ Len(rx_queue) = GATEWAY_RX_QUEUE_SIZE)
       => /\ rx_queue' = rx_queue
          /\ \E c \in (DOMAIN ZeroStats) \ ArrivalCounters :
                 s_gw'.stats[c] = s_gw.stats[c] + 1]_vars

----------------------------------------------------------------------------
(* Uplink path *)

\* the frames (by the name the history gives them) in a sequence of
\* lora_rx_packet_t
FramesOf(packets) == { packets[i].payload : i \in DOMAIN packets }

\* the frames in the rxpk array of the latest PUSH_DATA
PushedFrames ==
    UNION { FramesOf(udp_out.push_data[i].rxpk) : i \in DOMAIN udp_out.push_data }

\* no frame delivered with a CRC error is in the uplink queue or in a
\* PUSH_DATA, and every descriptor there has crc_ok set
CrcBadNotForwarded ==
    /\ FramesOf(uplink_queue) \cap hist.bad_frames = {}
    /\ PushedFrames \cap hist.bad_frames = {}
    /\ \A i \in DOMAIN uplink_queue : uplink_queue[i].crc_ok
    /\ \A i \in DOMAIN udp_out.push_data :
           \A j \in DOMAIN udp_out.push_data[i].rxpk :
               udp_out.push_data[i].rxpk[j].crc_ok

\* the step is the radio interrupt delivering a frame with a CRC error
CrcBadArrives == hist'.bad_frames # hist.bad_frames

\* the step counts one frame as received with a CRC error
CountedBad ==
    /\ s_gw'.stats.rx_total = s_gw.stats.rx_total + 1
    /\ s_gw'.stats.rx_bad = s_gw.stats.rx_bad + 1
    /\ s_gw'.stats.rx_ok = s_gw.stats.rx_ok

\* C18 as stated: a frame received with a CRC error is counted in rx_total
\* and rx_bad, never enters the uplink queue and is in no PUSH_DATA.
C18_CrcBadCountedNotForwarded ==
    /\ []CrcBadNotForwarded
    /\ [][CrcBadArrives => CountedBad]_vars

\* C18: a frame received with a CRC error never enters the uplink queue
\* and is in no PUSH_DATA; it is counted in rx_total and rx_bad when it is
\* delivered while the gateway is running (s_gw.running), and counted
\* nowhere otherwise.
C18_CrcBadNotForwarded ==
    /\ []CrcBadNotForwarded
    /\ [][CrcBadArrives
          => IF s_gw.running THEN CountedBad ELSE s_gw' = s_gw]_vars

\* a frame with a CRC error has been counted and taken from the RX queue by
\* rx_process_task while the server was connected, and a good frame received
\* after it has been sent in a PUSH_DATA
C18_Witness ==
    /\ hist.bad_frames # {}
    /\ s_gw.stats.rx_bad > 0
    /\ s_pf.connected
    /\ rx_queue = << >>
    /\ \E f \in PushedFrames : \E b \in hist.bad_frames : b < f

\* the frames of a sequence of lora_rx_packet_t, in sequence order
FrameSeq(packets) == [i \in DOMAIN packets |-> packets[i].payload]

\* the frames of the latest PUSH_DATA, in array order
PushedSeq ==
    IF udp_out.push_data = << >> THEN << >>
    ELSE FrameSeq(udp_out.push_data[1].rxpk)

\* a sequence of frames is in the order the radio interrupt delivered them,
\* without repetition (the history names the frames 1, 2, ... as they are
\* delivered)
InDeliveryOrder(frames) ==
    \A i, j \in DOMAIN frames : i < j => frames[i] < frames[j]

\* C19: the rxpk entries of successive PUSH_DATA datagrams, in send order
\* and then array order, are frames in the order the radio interrupt
\* delivered them, none twice: the frames of the latest PUSH_DATA, those
\* in the uplink queue and those in the RX queue are in delivery order, and
\* each PUSH_DATA begins after the last frame of the one sent before it.
C19_UplinkOrderKept ==
    /\ [](InDeliveryOrder(PushedSeq \o FrameSeq(uplink_queue)
                              \o FrameSeq(rx_queue)))
    /\ [][s_pf'.push_sent # s_pf.push_sent
          => /\ udp_out'.push_data # << >>
             /\ udp_out'.push_data[1].rxpk # << >>
             /\ InDeliveryOrder(<< hist.pushed >>
                                    \o FrameSeq(udp_out'.push_data[1].rxpk))
             /\ hist'.pushed
                    = udp_out'.push_data[1].rxpk[
                          Len(udp_out'.push_data[1].rxpk)].payload]_vars

\* a second PUSH_DATA with several frames has been sent while frames wait
\* in both queues
C19_Witness ==
    /\ s_pf.push_sent >= 2
    /\ Len(PushedSeq) >= 2
    /\ uplink_queue # << >>
    /\ rx_queue # << >>

\* the step is the forwarder's tx_task draining a batch whose PUSH_DATA
\* would not fit the outbound buffer
DrainsOversizeBatch ==
    /\ Len(uplink_queue') < Len(uplink_queue)
    /\ ~PushDataFits(UplinkBatch(uplink_queue))

\* C20: when the PUSH_DATA of a drained batch would not fit the
\* UDP_BUFFER_SIZE buffer, a PUSH_DATA with the first descriptors of the
\* batch is sent and the rest of the batch stays queued for a later
\* PUSH_DATA: no descriptor is lost.
C20_OversizeBatchSplit ==
    [][DrainsOversizeBatch
       => /\ s_pf'.push_sent = s_pf.push_sent + 1
          /\ udp_out'.push_data # << >>
          /\ udp_out'.push_data[1].rxpk # << >>
          /\ FrameSeq(udp_out'.push_data[1].rxpk) \o FrameSeq(uplink_queue')
                 = FrameSeq(uplink_queue)]_vars

----------------------------------------------------------------------------
(* Base64: encode_base64 and decode_base64 on byte strings.  A character   *)
(* is its ASCII code, a string the sequence of its characters without the  *)
(* terminating NUL.                                                        *)

\* longest byte string of which every content over B64Bytes is converted
B64MaxLen == 3
\* byte values of those strings
B64Bytes == {0, 1, 127, 128, 255}

\* b64_table[k] for k in 0..63: "A".."Z", "a".."z", "0".."9", "+", "/"
b64_table(k) ==
    IF k < 26 THEN 65 + k
    ELSE IF k < 52 THEN 97 + (k - 26)
    ELSE IF k < 62 THEN 48 + (k - 52)
    ELSE IF k = 62 THEN 43
    ELSE 47

\* data[i] of the C array (index from 0)
ByteAt(data, i) == data[i + 1]

\* input[i] of the C string (index from 0): the terminating NUL at its end
CharAt(input, i) == IF i < Len(input) THEN input[i + 1] ELSE 0

\* encode_base64 sparing the padding: a short last group gets table
\* characters of the zero bits instead of '='
RECURSIVE encode_base64_nopad(_, _)
encode_base64_nopad(data, i) ==
    IF i < Len(data)
    THEN LET len == Len(data)
             n == (ByteAt(data, i) * 65536)
                  + (IF i + 1 < len THEN ByteAt(data, i + 1) * 256 ELSE 0)
                  + (IF i + 2 < len THEN ByteAt(data, i + 2) ELSE 0)
         IN  << b64_table((n \div 262144) % 64),
                b64_table((n \div 4096) % 64),
                b64_table((n \div 64) % 64),
                b64_table(n % 64) >>
             \o encode_base64_nopad(data, i + 3)
    ELSE << >>

\* encode_base64(data, len, output): the characters written to output by
\* the loop from index i on
RECURSIVE encode_base64(_, _)
encode_base64(data, i) ==
    IF i < Len(data)
    THEN LET len == Len(data)
             n == (ByteAt(data, i) * 65536)
                  + (IF i + 1 < len THEN ByteAt(data, i + 1) * 256 ELSE 0)
                  + (IF i + 2 < len THEN ByteAt(data, i + 2) ELSE 0)
         IN  << b64_table((n \div 262144) % 64),
                b64_table((n \div 4096) % 64),
                IF i + 1 < len THEN b64_table((n \div 64) % 64) ELSE 61,
                IF i + 2 < len THEN b64_table(n % 64) ELSE 61 >>
             \o encode_base64(data, i + 3)
    ELSE << >>

\* the 6-bit value decode_base64 gives a character (0 for '=' and for any
\* character outside the alphabet)
Base64Value(c) ==
    IF c >= 65 /\ c <= 90 THEN c - 65
    ELSE IF c >= 97 /\ c <= 122 THEN (c - 97) + 26
    ELSE IF c >= 48 /\ c <= 57 THEN (c - 48) + 52
    ELSE IF c = 43 THEN 62
    ELSE IF c = 47 THEN 63
    ELSE 0

\* the inner loop of decode_base64: n after the characters i+j .. i+3 that
\* lie within the string
RECURSIVE DecodeGroup(_, _, _, _)
DecodeGroup(input, i, j, n) ==
    IF j < 4 /\ i + j < Len(input)
    THEN DecodeGroup(input, i, j + 1,
                     (n * 64) + Base64Value(CharAt(input, i + j)))
    ELSE n

\* decode_base64(input, output, max_len): the bytes in output after the loop
\* from index i on, output being the bytes written before
RECURSIVE decode_base64_bytes(_, _, _, _)
decode_base64_bytes(input, max_len, i, output) ==
    IF i < Len(input) /\ Len(output) < max_len
    THEN LET n == DecodeGroup(input, i, 0, 0)
             o1 == Append(output, (n \div 65536) % 256)
             o2 == IF Len(o1) < max_len /\ CharAt(input, i + 2) # 61
                   THEN Append(o1, (n \div 256) % 256) ELSE o1
             o3 == IF Len(o2) < max_len /\ CharAt(input, i + 3) # 61
                   THEN Append(o2, n % 256) ELSE o2
         IN  decode_base64_bytes(input, max_len, i + 4, o3)
    ELSE output

RECURSIVE ByteStrings(_)
ByteStrings(n) ==
    IF n = 0 THEN {<< >>}
    ELSE LET shorter == ByteStrings(n - 1)
         IN  shorter \cup
             {Append(s, b) : s \in {t \in shorter : Len(t) = n - 1},
                             b \in B64Bytes}

\* the byte strings converted: every string over B64Bytes up to B64MaxLen
\* bytes, and strings of 253, 254 and 255 bytes in which every byte value
\* occurs at every position of a group of three
B64Inputs ==
    ByteStrings(B64MaxLen) \cup
    {[k \in 1..n |-> (k + s) % 256] : n \in 253..LORA_MAX_PAYLOAD_SIZE,
                                      s \in 0..2}

\* a byte string is handed to encode_base64
InitBase64 ==
    /\ InitProgram
    /\ b64 \in {[NoBase64 EXCEPT !.pc = "data", !.data = P] : P \in B64Inputs}
    /\ app = IdleApp
    /\ s_net = StartedNet

\* encode_base64(data, len, output)
Base64Encode ==
    /\ b64.pc = "data"
    /\ b64' = [b64 EXCEPT !.pc = "text", !.text = encode_base64(b64.data, 0)]
    /\ UNCHANGED << radio, s_cm, tx_queue, txw, s_gw, rx_queue, rxw, s_pf,
                    pfw, uplink_queue, udp_out, main_pc, clock, hist, events,
                    pftx, tmr >>
    /\ UNCHANGED << app, s_net >>

\* out_len = decode_base64(text, output, LORA_MAX_PAYLOAD_SIZE)
Base64Decode ==
    /\ b64.pc = "text"
    /\ LET output == decode_base64_bytes(b64.text, LORA_MAX_PAYLOAD_SIZE, 0,
                                         << >>)
       IN  b64' = [b64 EXCEPT !.pc = "done", !.output = output,
                              !.out_len = Len(output)]
    /\ UNCHANGED << radio, s_cm, tx_queue, txw, s_gw, rx_queue, rxw, s_pf,
                    pfw, uplink_queue, udp_out, main_pc, clock, hist, events,
                    pftx, tmr >>
    /\ UNCHANGED << app, s_net >>

NextBase64 ==
    \/ Base64Encode
    \/ Base64Decode

SpecBase64 == InitBase64 /\ [][NextBase64]_vars

\* C25: every byte string of 0..255 bytes that has been encoded by
\* encode_base64 and decoded again by decode_base64 with max_len 255 comes
\* back unchanged, and the length returned is the length of the string
C25_Base64RoundTrip ==
    b64.pc = "done" => b64.out_len = Len(b64.data) /\ b64.output = b64.data

\* a string of 255 bytes, the longest a frame carries, has made the round
\* trip
C25_Witness ==
    /\ b64.pc = "done"
    /\ Len(b64.data) = LORA_MAX_PAYLOAD_SIZE
    /\ b64.output = b64.data

----------------------------------------------------------------------------
(* The packet forwarder step by step: rx_task on the datagrams of the      *)
(* server, the timer service task running keepalive_callback and           *)
(* stat_callback, tx_task sending the uplinks.  The three tasks share      *)
(* s_pf without a lock, so every access to it is a step of its own.        *)
(* esp_timer_get_time() is below 2^31 here (the first 35 minutes after     *)
(* boot), where the int64_t it returns equals clock.                       *)

\* uptime, in microseconds, at which the forwarder is observed: past the
\* keepalive timeout, no PULL_ACK handled yet
FwdBootClocks == {40000000}
\* advances of the clock: the keepalive timeout exactly, and one more
FwdClockSteps == {KEEPALIVE_TIMEOUT_US, KEEPALIVE_TIMEOUT_US + 1}

\* datagrams of the server as rx_task reads them: the length recvfrom
\* returns, buffer[0], buffer[3]; PUSH_ACK, PULL_ACK, an echoed PUSH_DATA, an
\* unassigned type, and PULL_RESP where it is too short or of another
\* version (a well-formed PULL_RESP is the subject of HandlePullResp)
FwdDatagrams ==
    {d \in [len : {3, 4}, version : {1, PROTOCOL_VERSION},
            type : {PKT_PUSH_DATA, PKT_PUSH_ACK, PKT_PULL_RESP, PKT_PULL_ACK,
                    7}] :
       ~(d.len >= 4 /\ d.version = PROTOCOL_VERSION
                    /\ d.type = PKT_PULL_RESP)}

NoDatagram == [len |-> 0, version |-> 0, type |-> 0]

\* uplinks handed to rx_packet_handler
FwdUplinks ==
    {[payload |-> 1, payload_size |-> 12, rssi |-> -37, crc_ok |-> TRUE,
      frequency |-> gw_config_get_uplink_freq(0),
      spreading_factor |-> SX1276_SF_7, bandwidth |-> 0,
      coding_rate |-> SX1276_CR_4_5]}

\* the state after lora_gateway_init, pkt_fwd_init and pkt_fwd_start: the
\* forwarder runs and has sent its first PULL_DATA, the gateway is not
\* started
InitForwarder ==
    /\ radio = [r \in Radios |->
                  IF r = "rx_radio" THEN sx1276_init(RxRadioConfig)
                                    ELSE sx1276_init(TxRadioConfig)]
    /\ s_cm = [running |-> FALSE, tx_busy |-> FALSE, tx_mutex |-> FALSE,
               hopping_enabled |-> FALSE, hop_timer |-> FALSE,
               current_channel |-> 0]
    /\ tx_queue = << >>
    /\ txw = [pc |-> "none", packet |-> NoPacket, now |-> 0, delay |-> 0,
              timeout |-> 0]
    /\ s_gw = [initialized |-> TRUE, running |-> FALSE, stats |-> ZeroStats]
    /\ rx_queue = << >>
    /\ rxw = "none"
    /\ s_pf = [running |-> TRUE, connected |-> FALSE, push_sent |-> 0,
               pull_sent |-> 1, push_ack |-> 0, pull_ack |-> 0,
               push_token |-> 0, pull_token |-> 1, last_pull_ack |-> 0]
    /\ pfw = IdleRxTask
    /\ uplink_queue = << >>
    /\ udp_out = [tx_ack |-> << >>, push_data |-> << >>,
                  pull_data |-> << [type |-> "PULL_DATA", token |-> 1] >>]
    /\ main_pc = "idle"
    /\ clock \in FwdBootClocks
    /\ hist = [scheduled |-> 0, frames |-> 0, transmitted |-> {},
               too_late |-> {}, pushed |-> 0, pull_resps |-> 0,
               pull_resp |-> NoPullResp, bad_frames |-> {},
               dgrams |-> 0, dgram |-> NoDatagram]
    /\ events = 0
    /\ pftx = NoPfTxTask
    /\ tmr = IdleTimerTask
    /\ b64 = NoBase64
    /\ app = IdleApp
    /\ s_net = StartedNet

\* rx_task without its test of buffer[0]
rx_task_dispatch_any_version(d) ==
    IF d.len < 4 THEN "continue"
    ELSE IF d.type = PKT_PUSH_ACK THEN "PUSH_ACK"
    ELSE IF d.type = PKT_PULL_ACK THEN "PULL_ACK"
    ELSE IF d.type = PKT_PULL_RESP THEN "PULL_RESP"
    ELSE "default"

\* rx_task from recvfrom to its switch: the branch taken for a datagram
rx_task_dispatch(d) ==
    IF d.len < 4 THEN "continue"
    ELSE IF d.version # PROTOCOL_VERSION THEN "continue"
    ELSE IF d.type = PKT_PUSH_ACK THEN "PUSH_ACK"
    ELSE IF d.type = PKT_PULL_ACK THEN "PULL_ACK"
    ELSE IF d.type = PKT_PULL_RESP THEN "PULL_RESP"
    ELSE "default"

\* rx_task receives the datagram d: PUSH_ACK counts, PULL_ACK counts and
\* sets status.connected (its time stamp is the next step), anything else
\* is skipped or logged
RxTaskDatagram(d) ==
    /\ s_pf.running
    /\ pfw.pc = "idle"
    /\ events < MaxEvents
    /\ events' = events + 1
    /\ hist' = [hist EXCEPT !.dgrams = @ + 1, !.dgram = d]
    /\ LET branch == rx_task_dispatch(d)
       IN  CASE branch = "PUSH_ACK" ->
                  /\ s_pf' = [s_pf EXCEPT !.push_ack = @ + 1]
                  /\ UNCHANGED pfw
             [] branch = "PULL_ACK" ->
                  /\ s_pf' = [s_pf EXCEPT !.pull_ack = @ + 1,
                                          !.connected = TRUE]
                  /\ pfw' = [pfw EXCEPT !.pc = "pull_ack"]
             [] OTHER ->
                  UNCHANGED << s_pf, pfw >>
    /\ UNCHANGED << radio, s_cm, tx_queue, txw, s_gw, rx_queue, rxw,
                    uplink_queue, udp_out, main_pc, clock, pftx, tmr, b64 >>
    /\ UNCHANGED << app, s_net >>

\* the PULL_ACK branch, end: s_pf.last_pull_ack = esp_timer_get_time()
RxTaskPullAckTime ==
    /\ pfw.pc = "pull_ack"
    /\ s_pf' = [s_pf EXCEPT !.last_pull_ack = clock]
    /\ pfw' = [pfw EXCEPT !.pc = "idle"]
    /\ UNCHANGED << radio, s_cm, tx_queue, txw, s_gw, rx_queue, rxw,
                    uplink_queue, udp_out, main_pc, clock, hist, events,
                    pftx, tmr, b64 >>
    /\ UNCHANGED << app, s_net >>

\* the token after token++ on a uint16_t
NextToken(token) == (token + 1) % 65536

\* now - s_pf.last_pull_ack > 30000000
KeepaliveStale(now, last_pull_ack) ==
    now - last_pull_ack > KEEPALIVE_TIMEOUT_US

\* keepalive_callback up to its test of the time: send_pull_data (token++,
\* the datagram, pull_sent++), then now is read and compared
KeepaliveTick ==
    /\ s_pf.running
    /\ tmr.pc = "idle"
    /\ events < MaxEvents
    /\ events' = events + 1
    /\ s_pf' = [s_pf EXCEPT !.pull_token = NextToken(@), !.pull_sent = @ + 1]
    /\ udp_out' = [udp_out EXCEPT !.pull_data =
                      << [type |-> "PULL_DATA",
                          token |-> NextToken(s_pf.pull_token)] >>]
    /\ tmr' = [tmr EXCEPT !.pc = IF KeepaliveStale(clock, s_pf.last_pull_ack)
                                 THEN "lost" ELSE "idle"]
    /\ UNCHANGED << radio, s_cm, tx_queue, txw, s_gw, rx_queue, rxw, pfw,
                    uplink_queue, main_pc, clock, hist, pftx, b64 >>
    /\ UNCHANGED << app, s_net >>

\* keepalive_callback, end: if (s_pf.status.connected) connected = false
KeepaliveLost ==
    /\ tmr.pc = "lost"
    /\ s_pf' = [s_pf EXCEPT !.connected = FALSE]
    /\ tmr' = IdleTimerTask
    /\ UNCHANGED << radio, s_cm, tx_queue, txw, s_gw, rx_queue, rxw, pfw,
                    uplink_queue, udp_out, main_pc, clock, hist, events,
                    pftx, b64 >>
    /\ UNCHANGED << app, s_net >>

\* stat_callback up to the load of s_pf.push_token++
StatTick ==
    /\ s_pf.running
    /\ tmr.pc = "idle"
    /\ events < MaxEvents
    /\ events' = events + 1
    /\ tmr' = [tmr EXCEPT !.pc = "stat_store", !.reg = s_pf.push_token]
    /\ UNCHANGED << radio, s_cm, tx_queue, txw, s_gw, rx_queue, rxw, s_pf,
                    pfw, uplink_queue, udp_out, main_pc, clock, hist, pftx,
                    b64 >>
    /\ UNCHANGED << app, s_net >>

\* stat_callback: the store of s_pf.push_token++
StatTokenStore ==
    /\ tmr.pc = "stat_store"
    /\ s_pf' = [s_pf EXCEPT !.push_token = NextToken(tmr.reg)]
    /\ tmr' = [tmr EXCEPT !.pc = "stat_header"]
    /\ UNCHANGED << radio, s_cm, tx_queue, txw, s_gw, rx_queue, rxw, pfw,
                    uplink_queue, udp_out, main_pc, clock, hist, events,
                    pftx, b64 >>
    /\ UNCHANGED << app, s_net >>

\* stat_callback: s_pf.push_token is read into bytes 1 and 2 of the header
StatHeader ==
    /\ tmr.pc = "stat_header"
    /\ tmr' = [tmr EXCEPT !.pc = "stat_send", !.token = s_pf.push_token]
    /\ UNCHANGED << radio, s_cm, tx_queue, txw, s_gw, rx_queue, rxw, s_pf,
                    pfw, uplink_queue, udp_out, main_pc, clock, hist, events,
                    pftx, b64 >>
    /\ UNCHANGED << app, s_net >>

\* a PUSH_DATA datagram: the token of its header, the rxpk array, whether it
\* carries a stat object
PushData(token, rxpk, stat) ==
    [type |-> "PUSH_DATA", token |-> token, rxpk |-> rxpk, stat |-> stat]

\* stat_callback, end: sendto of the stat report
StatSend ==
    /\ tmr.pc = "stat_send"
    /\ udp_out' = [udp_out EXCEPT !.push_data =
                      << PushData(tmr.token, << >>, TRUE) >>]
    /\ tmr' = IdleTimerTask
    /\ UNCHANGED << radio, s_cm, tx_queue, txw, s_gw, rx_queue, rxw, s_pf,
                    pfw, uplink_queue, main_pc, clock, hist, events, pftx,
                    b64 >>
    /\ UNCHANGED << app, s_net >>

\* rx_packet_handler of app_main on a delivered packet: pkt_fwd_send_uplink
\* when the server is connected
RxPacketHandler(packet) ==
    /\ events < MaxEvents
    /\ uplink_queue' = IF s_pf.connected
                       THEN pkt_fwd_send_uplink(uplink_queue, packet)
                       ELSE uplink_queue
    /\ events' = IF uplink_queue' = uplink_queue THEN events ELSE events + 1
    /\ UNCHANGED << radio, s_cm, tx_queue, txw, s_gw, rx_queue, rxw, s_pf,
                    pfw, udp_out, main_pc, clock, hist, pftx, tmr, b64 >>
    /\ UNCHANGED << app, s_net >>

\* tx_task collects a batch from the uplink queue
PfTxCollect ==
    /\ s_pf.running
    /\ pftx.pc = "loop"
    /\ uplink_queue # << >>
    /\ LET batch == UplinkBatch(uplink_queue)
       IN  /\ uplink_queue' = SubSeq(uplink_queue, Len(batch) + 1,
                                     Len(uplink_queue))
           /\ pftx' = [pftx EXCEPT !.pc = "token_load", !.batch = batch]
    /\ UNCHANGED << radio, s_cm, tx_queue, txw, s_gw, rx_queue, rxw, s_pf,
                    pfw, udp_out, main_pc, clock, hist, events, tmr, b64 >>
    /\ UNCHANGED << app, s_net >>

\* send_push_data: the load of s_pf.push_token++
PfTxTokenLoad ==
    /\ pftx.pc = "token_load"
    /\ pftx' = [pftx EXCEPT !.pc = "token_store", !.reg = s_pf.push_token]
    /\ UNCHANGED << radio, s_cm, tx_queue, txw, s_gw, rx_queue, rxw, s_pf,
                    pfw, uplink_queue, udp_out, main_pc, clock, hist, events,
                    tmr, b64 >>
    /\ UNCHANGED << app, s_net >>

\* send_push_data: the store of s_pf.push_token++
PfTxTokenStore ==
    /\ pftx.pc = "token_store"
    /\ s_pf' = [s_pf EXCEPT !.push_token = NextToken(pftx.reg)]
    /\ pftx' = [pftx EXCEPT !.pc = "header"]
    /\ UNCHANGED << radio, s_cm, tx_queue, txw, s_gw, rx_queue, rxw, pfw,
                    uplink_queue, udp_out, main_pc, clock, hist, events, tmr,
                    b64 >>
    /\ UNCHANGED << app, s_net >>

\* send_push_data: s_pf.push_token is read into bytes 1 and 2 of the header
PfTxHeader ==
    /\ pftx.pc = "header"
    /\ pftx' = [pftx EXCEPT !.pc = "send", !.token = s_pf.push_token]
    /\ UNCHANGED << radio, s_cm, tx_queue, txw, s_gw, rx_queue, rxw, s_pf,
                    pfw, uplink_queue, udp_out, main_pc, clock, hist, events,
                    tmr, b64 >>
    /\ UNCHANGED << app, s_net >>

\* send_push_data, end: the JSON is built, a datagram that fits is sent and
\* push_sent++; tx_task goes back to its loop
PfTxSend ==
    /\ pftx.pc = "send"
    /\ IF PushDataFits(pftx.batch)
       THEN /\ udp_out' = [udp_out EXCEPT !.push_data =
                              << PushData(pftx.token, pftx.batch, FALSE) >>]
            /\ s_pf' = [s_pf EXCEPT !.push_sent = @ + 1]
       ELSE UNCHANGED << udp_out, s_pf >>
    /\ pftx' = NoPfTxTask
    /\ UNCHANGED << radio, s_cm, tx_queue, txw, s_gw, rx_queue, rxw, pfw,
                    uplink_queue, main_pc, clock, hist, events, tmr, b64 >>
    /\ UNCHANGED << app, s_net >>

NextForwarder ==
    \/ \E d \in FwdDatagrams : RxTaskDatagram(d)
    \/ RxTaskPullAckTime
    \/ \E d \in PullRespDatagrams : HandlePullResp(d)
    \/ KeepaliveTick
    \/ KeepaliveLost
    \/ StatTick
    \/ StatTokenStore
    \/ StatHeader
    \/ StatSend
    \/ \E packet \in FwdUplinks : RxPacketHandler(packet)
    \/ PfTxCollect
    \/ PfTxTokenLoad
    \/ PfTxTokenStore
    \/ PfTxHeader
    \/ PfTxSend
    \/ \E d \in FwdClockSteps : Tick(d)

SpecForwarder == InitForwarder /\ [][NextForwarder]_vars

----------------------------------------------------------------------------
(* Claims on the forwarder's liveness flag, tokens and datagram filter *)

\* a step of keepalive_callback that takes status.connected from true to
\* false
KeepaliveClears ==
    tmr.pc = "lost" /\ tmr'.pc = "idle" /\ s_pf.connected /\ ~s_pf'.connected

\* C21: keepalive_callback sets status.connected to false only while the
\* latest PULL_ACK handled is more than 30 s old (the time stamp rx_task
\* wrote lies more than KEEPALIVE_TIMEOUT_US before the clock)
C21_KeepaliveClearsOnlyWhenStale ==
    [][KeepaliveClears => KeepaliveStale(clock, s_pf.last_pull_ack)]_vars

\* rx_task finishes the handling of a PULL_ACK
PullAckHandled ==
    pfw.pc = "pull_ack" /\ pfw'.pc = "idle"

\* C22: when rx_task has finished handling a PULL_ACK, status.connected is
\* true
C22_ConnectedAfterPullAck ==
    [][PullAckHandled => s_pf'.connected]_vars

\* a step that sends a PUSH_DATA datagram: the sendto of send_push_data or
\* of stat_callback
PushDataSent ==
    \/ pftx.pc = "send" /\ pftx'.pc = "loop" /\ PushDataFits(pftx.batch)
    \/ tmr.pc = "stat_send" /\ tmr'.pc = "idle"

\* C23: every PUSH_DATA sent, uplink batch or stat report, carries a token
\* different from the token of the PUSH_DATA sent before it
C23_PushTokensDiffer ==
    [][(PushDataSent /\ udp_out.push_data # << >>)
         => udp_out'.push_data[1].token # udp_out.push_data[1].token]_vars

\* a datagram shorter than 4 bytes, of another protocol version than 2, or
\* of a type that is none of PUSH_ACK, PULL_ACK and PULL_RESP
Ignored(d) ==
    \/ d.len < 4
    \/ d.version # 2
    \/ d.type \notin {PKT_PUSH_ACK, PKT_PULL_ACK, PKT_PULL_RESP}

\* C24: a datagram that is too short, of another version or of an unknown
\* type changes nothing of the forwarder (counters, connected flag, time
\* stamp, tokens), sends no datagram, least of all a TX_ACK, and schedules
\* no downlink
C24_BadDatagramIgnored ==
    [][(hist'.dgrams = hist.dgrams + 1 /\ Ignored(hist'.dgram))
         => /\ s_pf' = s_pf
            /\ udp_out' = udp_out
            /\ tx_queue' = tx_queue
            /\ s_gw' = s_gw
            /\ pfw' = pfw]_vars

\* rx_task has received a PULL_ACK of another version or cut short, as the
\* first PULL_ACK after start, and the forwarder is as it was
C24_Witness ==
    /\ hist.dgrams > 0
    /\ Ignored(hist.dgram)
    /\ hist.dgram.type = PKT_PULL_ACK
    /\ s_pf.pull_ack = 0
    /\ ~s_pf.connected

----------------------------------------------------------------------------
(* The uplink path of one frame: RX_DONE interrupt, rx_callback, the RX    *)
(* queue, rx_process_task, the uplink queue, the rxpk object of PUSH_DATA  *)

\* configurations of the RX radio: every spreading factor with every LoRaWAN
\* bandwidth at coding rate 4/5, and the other coding rates at SF7 / 125 kHz
RxPathConfigs ==
    {[RxRadioConfig EXCEPT !.sf = sf, !.bw = bw] :
         sf \in SX1276_SF_7..SX1276_SF_12,
         bw \in {SX1276_BW_125_KHZ, SX1276_BW_250_KHZ, SX1276_BW_500_KHZ}}
    \cup
    {[RxRadioConfig EXCEPT !.bw = SX1276_BW_125_KHZ, !.cr = cr] :
         cr \in SX1276_CR_4_5..SX1276_CR_4_8}
\* payload lengths, in bytes, of the frames received
RxPathSizes == {0, LORA_MAX_PAYLOAD_SIZE}
\* values of the packet RSSI register
RxPathRssiRegs == {0, 255}

\* the digit character of d in 0..9
DigitChar(d) == CHOOSE c \in DOMAIN DigitVal : DigitVal[c] = d

\* the characters %d prints for n >= 0
RECURSIVE Decimal(_)
Decimal(n) ==
    IF n < 10 THEN << DigitChar(n) >>
    ELSE Decimal(n \div 10) \o << DigitChar(n % 10) >>

\* get_datr_string: snprintf(datr, 16, "SF%dBW%d", sf, bw_khz)
get_datr_string(sf, bw) ==
    LET bw_khz == IF bw = 2 THEN 500 ELSE IF bw = 1 THEN 250 ELSE 125
    IN  << "S", "F" >> \o Decimal(sf) \o << "B", "W" >> \o Decimal(bw_khz)

\* get_codr_string
get_codr_string(cr) ==
    CASE cr = 1 -> << "4", "/", "5" >>
      [] cr = 2 -> << "4", "/", "6" >>
      [] cr = 3 -> << "4", "/", "7" >>
      [] cr = 4 -> << "4", "/", "8" >>
      [] OTHER -> << "4", "/", "5" >>

\* the members of the rxpk object send_push_data builds for a packet that
\* tell its modulation, quality and content
rxpk_item(pkt) ==
    [stat |-> IF pkt.crc_ok THEN "OK" ELSE "CRC",
     datr |-> get_datr_string(pkt.spreading_factor, pkt.bandwidth),
     codr |-> get_codr_string(pkt.coding_rate),
     rssi |-> pkt.rssi,
     size |-> pkt.payload_size]

\* a started gateway and a connected forwarder, the RX radio initialised
\* with one of the configurations, nothing received yet
InitRxPath ==
    /\ radio \in {[r \in Radios |->
                     IF r = "rx_radio"
                     THEN sx1276_start_rx(sx1276_init(config))
                     ELSE sx1276_set_mode(sx1276_init(TxRadioConfig),
                                          "STANDBY")] :
                  config \in RxPathConfigs}
    /\ s_cm = [running |-> TRUE, tx_busy |-> FALSE, tx_mutex |-> FALSE,
               hopping_enabled |-> FALSE, hop_timer |-> FALSE,
               current_channel |-> 0]
    /\ tx_queue = << >>
    /\ txw = NewTxTask
    /\ s_gw = [initialized |-> TRUE, running |-> TRUE, stats |-> ZeroStats]
    /\ rx_queue = << >>
    /\ rxw = "loop"
    /\ s_pf = [running |-> TRUE, connected |-> TRUE, push_sent |-> 0]
    /\ pfw = IdleRxTask
    /\ uplink_queue = << >>
    /\ udp_out = [tx_ack |-> << >>, push_data |-> << >>]
    /\ main_pc = "idle"
    /\ clock \in BootClocks
    /\ hist = [scheduled |-> 0, frames |-> 0, transmitted |-> {},
               too_late |-> {}, pushed |-> 0, pull_resps |-> 0,
               pull_resp |-> NoPullResp, bad_frames |-> {}]
    /\ events = 0
    /\ pftx = NoPfTxTask
    /\ tmr = IdleTimerTask
    /\ b64 = NoBase64
    /\ app = IdleApp
    /\ s_net = StartedNet

NextRxPath ==
    \/ \E r \in Radios, length \in RxPathSizes, crc_error \in BOOLEAN,
          rssi_reg \in RxPathRssiRegs :
           Dio0IsrRxDone(r, length, crc_error, rssi_reg)
    \/ RxProcessTask
    \/ PfTxTask

SpecRxPath == InitRxPath /\ [][NextRxPath]_vars

\* the rxpk objects of the latest PUSH_DATA
PushedItems ==
    UNION {{rxpk_item(udp_out.push_data[i].rxpk[j]) :
                j \in DOMAIN udp_out.push_data[i].rxpk} :
           i \in DOMAIN udp_out.push_data}

\* C26: the datr and codr strings of every rxpk sent read as the spreading
\* factor, the bandwidth in kHz and the coding rate the RX radio's modem
\* registers are set to
C26_DatrCodrDenoteRadio ==
    \A item \in PushedItems :
        LET scan == sscanf_datr(item.datr)
            chip == radio["rx_radio"]
        IN  /\ scan.count = 2
            /\ scan.sf = chip.reg_sf
            /\ scan.bw = Sx1276BwKHz(chip.reg_bw)
            /\ item.codr = << "4", "/" >> \o Decimal(chip.reg_cr + 4)

\* C27: every RX_DONE interrupt whose frame reaches the RX queue, whatever
\* the length of the FIFO payload, the RSSI register and the CRC-error bit,
\* puts there a descriptor with that payload, its length, the register
\* minus 157 as rssi, and crc_ok the negation of the bit
C27_DescriptorMatchesFrame ==
    [][\A r \in Radios, length \in RxPathSizes, crc_error \in BOOLEAN,
          rssi_reg \in RxPathRssiRegs :
           (Dio0IsrRxDone(r, length, crc_error, rssi_reg)
                /\ Len(rx_queue') = Len(rx_queue) + 1)
           => LET descriptor == rx_queue'[Len(rx_queue')]
              IN  /\ descriptor.payload = hist'.frames
                  /\ descriptor.payload_size = length
                  /\ descriptor.rssi = rssi_reg - 157
                  /\ descriptor.crc_ok = ~crc_error]_vars

\* a frame of 255 bytes with RSSI register 255 and the CRC-error bit set is
\* in the RX queue
C27_Witness ==
    \E i \in DOMAIN rx_queue :
        /\ rx_queue[i].payload_size = LORA_MAX_PAYLOAD_SIZE
        /\ rx_queue[i].rssi = 98
        /\ ~rx_queue[i].crc_ok

----------------------------------------------------------------------------
(* Start-up: lora_gateway_init probing the two chips, and calls of the     *)
(* public entry points made while their component is not running           *)

SX1276_VERSION == 18

\* what sx1276_read_reg(REG_VERSION) returns: no chip (MISO low or high),
\* or an SX1276
VersionRegs == {0, SX1276_VERSION, 255}

\* no handle: the chip, if any, as sx1276_reset left it
NoDevice == [op_mode_reg |-> "RESET"]

\* a handle released by sx1276_deinit: sx1276_set_mode(SLEEP), then free
DeviceFreed == [op_mode_reg |-> "SLEEP"]

\* variant: sx1276_init putting the chip to sleep before it reads the
\* version register
sx1276_init_call_sleep_first(config, version) ==
    IF version # SX1276_VERSION
    THEN [ret |-> "ESP_ERR_NOT_FOUND", dev |-> NoDevice, written |-> TRUE]
    ELSE [ret |-> "ESP_OK", dev |-> sx1276_init(config), written |-> TRUE]

\* sx1276_init as called: reset by GPIO, read of REG_VERSION; on a mismatch
\* the device is freed and *handle is left alone, otherwise the registers are
\* written (sleep, standby, sx1276_apply_config) and *handle is set
sx1276_init_call(config, version) ==
    IF version # SX1276_VERSION
    THEN [ret |-> "ESP_ERR_NOT_FOUND", dev |-> NoDevice, written |-> FALSE]
    ELSE [ret |-> "ESP_OK", dev |-> sx1276_init(config), written |-> TRUE]

NoCall == [fn |-> "none", ret |-> "none"]

\* app_main before lora_gateway_init: s_gw zeroed, no handle, no forwarder
InitBoot ==
    /\ radio = [r \in Radios |-> NoDevice]
    /\ s_cm = [running |-> FALSE, tx_busy |-> FALSE, tx_mutex |-> FALSE,
               hopping_enabled |-> FALSE, hop_timer |-> FALSE,
               current_channel |-> 0]
    /\ tx_queue = << >>
    /\ txw = [pc |-> "none", packet |-> NoPacket, now |-> 0, delay |-> 0,
              timeout |-> 0]
    /\ s_gw = [initialized |-> FALSE, running |-> FALSE, stats |-> ZeroStats]
    /\ rx_queue = << >>
    /\ rxw = "none"
    /\ s_pf = [running |-> FALSE, connected |-> FALSE, push_sent |-> 0]
    /\ pfw = IdleRxTask
    /\ uplink_queue = << >>
    /\ udp_out = [tx_ack |-> << >>, push_data |-> << >>]
    /\ main_pc = "boot"
    /\ clock \in BootClocks
    /\ hist = [scheduled |-> 0, frames |-> 0, transmitted |-> {},
               too_late |-> {}, pushed |-> 0, pull_resps |-> 0,
               pull_resp |-> NoPullResp, bad_frames |-> {},
               init_ret |-> [r \in Radios |-> "not_called"],
               written |-> {}, calls |-> 0, call |-> NoCall]
    /\ events = 0
    /\ pftx = NoPfTxTask
    /\ tmr = IdleTimerTask
    /\ b64 = NoBase64
    /\ app = IdleApp
    /\ s_net = StartedNet

\* lora_gateway_init: sx1276_init of the RX radio, then of the TX radio
\* (whose failure releases the RX radio), then channel_manager_init, the RX
\* queue and s_gw.initialized = true; app_main goes on whatever it returns
LoraGatewayInit(v_rx, v_tx) ==
    /\ main_pc = "boot"
    /\ ~s_gw.initialized
    /\ LET rx == sx1276_init_call(RxRadioConfig, v_rx)
           tx == sx1276_init_call(TxRadioConfig, v_tx)
       IN  IF rx.ret # "ESP_OK"
           THEN /\ radio' = [radio EXCEPT !["rx_radio"] = rx.dev]
                /\ hist' = [hist EXCEPT
                     !.init_ret = [@ EXCEPT !["rx_radio"] = rx.ret],
                     !.written = @ \cup (IF rx.written THEN {"rx_radio"}
                                         ELSE {})]
                /\ UNCHANGED s_gw
           ELSE IF tx.ret # "ESP_OK"
           THEN /\ radio' = [radio EXCEPT !["rx_radio"] = DeviceFreed,
                                          !["tx_radio"] = tx.dev]
                /\ hist' = [hist EXCEPT
                     !.init_ret = [rx_radio |-> rx.ret, tx_radio |-> tx.ret],
                     !.written = @ \cup {"rx_radio"}
                                   \cup (IF tx.written THEN {"tx_radio"}
                                         ELSE {})]
                /\ UNCHANGED s_gw
           ELSE /\ radio' = [rx_radio |-> rx.dev, tx_radio |-> tx.dev]
                /\ hist' = [hist EXCEPT
                     !.init_ret = [rx_radio |-> rx.ret, tx_radio |-> tx.ret],
                     !.written = Radios]
                /\ s_gw' = [s_gw EXCEPT !.initialized = TRUE]
    /\ main_pc' = "idle"
    /\ UNCHANGED << s_cm, tx_queue, txw, rx_queue, rxw, s_pf, pfw, udp_out,
                    uplink_queue, clock, events >>
    /\ UNCHANGED << pftx, tmr, b64, app, s_net >>

\* the entry points called out of turn
LifecycleFns ==
    {"lora_gateway_start", "lora_gateway_send", "channel_manager_schedule_tx",
     "pkt_fwd_send_uplink"}

\* the downlink handed to lora_gateway_send and channel_manager_schedule_tx
BootDownlink ==
    [id |-> 1, immediate |-> TRUE, tx_timestamp |-> 0,
     modulation |-> [frequency |-> RX2_FREQUENCY, bandwidth |-> 2,
                     spreading_factor |-> SX1276_SF_12,
                     coding_rate |-> SX1276_CR_4_5, invert_polarity |-> TRUE],
     payload_size |-> 12]

\* channel_manager_schedule_tx called by itself: the TX queue after it
channel_manager_schedule_tx_queue(queue, packet) ==
    IF s_cm.running /\ channel_manager_schedule_tx(queue)
    THEN Append(queue, packet)
    ELSE queue

\* and what it returns
channel_manager_schedule_tx_ret(queue) ==
    IF ~s_cm.running THEN "ESP_ERR_INVALID_STATE"
    ELSE IF channel_manager_schedule_tx(queue) THEN "ESP_OK"
    ELSE "ESP_ERR_NO_MEM"

\* what pkt_fwd_send_uplink returns
pkt_fwd_send_uplink_ret(queue) ==
    IF ~s_pf.running THEN "ESP_ERR_INVALID_STATE"
    ELSE IF Len(queue) < UPLINK_QUEUE_SIZE THEN "ESP_OK"
    ELSE "ESP_ERR_NO_MEM"

\* one call of an entry point by some task: lora_gateway_start where it
\* returns at its entry checks (GatewayStart is the rest of it),
\* lora_gateway_send where it returns without reaching the TX queue
\* (HandlePullResp and TxQueueSend are the rest of it),
\* channel_manager_schedule_tx and pkt_fwd_send_uplink whole
LifecycleCall(fn) ==
    /\ main_pc = "idle"
    /\ events < MaxEvents
    /\ events' = events + 1
    /\ \/ /\ fn = "lora_gateway_start"
          /\ lora_gateway_start_entry # "start"
          /\ hist' = [hist EXCEPT !.calls = @ + 1,
                        !.call = [fn |-> fn, ret |-> lora_gateway_start_entry]]
          /\ UNCHANGED << s_gw, tx_queue, uplink_queue >>
       \/ /\ fn = "lora_gateway_send"
          /\ lora_gateway_send_result # "xQueueSend"
          /\ lora_gateway_send(BootDownlink)
          /\ hist' = [hist EXCEPT !.calls = @ + 1,
                        !.call = [fn |-> fn, ret |-> lora_gateway_send_result]]
          /\ UNCHANGED << tx_queue, uplink_queue >>
       \/ /\ fn = "channel_manager_schedule_tx"
          /\ tx_queue' = channel_manager_schedule_tx_queue(tx_queue,
                                                           BootDownlink)
          /\ hist' = [hist EXCEPT !.calls = @ + 1,
                        !.call = [fn |-> fn,
                                  ret |-> channel_manager_schedule_tx_ret(
                                              tx_queue)]]
          /\ UNCHANGED << s_gw, uplink_queue >>
       \/ /\ fn = "pkt_fwd_send_uplink"
          /\ \E packet \in FwdUplinks :
               uplink_queue' = pkt_fwd_send_uplink(uplink_queue, packet)
          /\ hist' = [hist EXCEPT !.calls = @ + 1,
                        !.call = [fn |-> fn,
                                  ret |-> pkt_fwd_send_uplink_ret(
                                              uplink_queue)]]
          /\ UNCHANGED << s_gw, tx_queue >>
    /\ UNCHANGED << radio, s_cm, txw, rx_queue, rxw, s_pf, pfw, udp_out,
                    main_pc, clock >>
    /\ UNCHANGED << pftx, tmr, b64, app, s_net >>

NextBoot ==
    \/ \E v_rx \in VersionRegs, v_tx \in VersionRegs :
         LoraGatewayInit(v_rx, v_tx)
    \/ GatewayStart
    \/ ChannelManagerStartTx
    \/ GatewayStartDone
    \/ GatewayStop
    \/ ChannelManagerStop
    \/ ChannelManagerStopTx
    \/ PktFwdStart
    \/ \E fn \in LifecycleFns : LifecycleCall(fn)

SpecBoot == InitBoot /\ [][NextBoot]_vars

\* the radios whose version register did not read SX1276_VERSION
ChipAbsent == {r \in Radios : hist.init_ret[r] = "ESP_ERR_NOT_FOUND"}

\* C28: when the version register does not read 0x12, sx1276_init returns
\* ESP_ERR_NOT_FOUND, leaves no handle and writes no register of that chip,
\* then or later, and the gateway stays uninitialised
C28_AbsentChipUntouched ==
    \A r \in ChipAbsent :
        /\ radio[r] = NoDevice
        /\ r \notin hist.written
        /\ ~s_gw.initialized
        /\ ~s_gw.running

\* lora_gateway_init has failed on the TX chip after the RX chip was set up,
\* and the entry points have been called since
C28_Witness ==
    /\ hist.init_ret = [rx_radio |-> "ESP_OK", tx_radio |-> "ESP_ERR_NOT_FOUND"]
    /\ hist.written = {"rx_radio"}
    /\ hist.calls > 0

\* the component an entry point belongs to is not running (not initialised,
\* for lora_gateway_start)
Misused(fn) ==
    CASE fn = "lora_gateway_start" -> ~s_gw.initialized
      [] fn = "lora_gateway_send" -> ~s_gw.running
      [] fn = "channel_manager_schedule_tx" -> ~s_cm.running
      [] fn = "pkt_fwd_send_uplink" -> ~s_pf.running
      [] OTHER -> FALSE

MisuseStep ==
    /\ hist'.calls = hist.calls + 1
    /\ Misused(hist'.call.fn)

\* C29: no worker exists before lora_gateway_init has succeeded, and an entry
\* point called while its component is not running returns
\* ESP_ERR_INVALID_STATE and changes no queue, no counter and no worker
C29_MisuseRejected ==
    /\ [](~s_gw.initialized => rxw = "none" /\ txw.pc = "none")
    /\ [][MisuseStep =>
            /\ hist'.call.ret = "ESP_ERR_INVALID_STATE"
            /\ UNCHANGED << tx_queue, rx_queue, uplink_queue, rxw, txw, s_gw,
                            s_cm, s_pf, radio >>]_vars

\* lora_gateway_send has been refused on a gateway that was started and
\* stopped again
C29_Witness ==
    /\ hist.call = [fn |-> "lora_gateway_send",
                    ret |-> "ESP_ERR_INVALID_STATE"]
    /\ s_gw.initialized
    /\ ~s_gw.running
    /\ rxw # "none"

----------------------------------------------------------------------------
(* Restart: lora_gateway_stop arriving while a downlink is in flight,      *)
(* lora_gateway_start after it, and the traffic that follows               *)

\* the immediate, well-formed PULL_RESP datagrams
RestartDatagrams ==
    {d \in PullRespDatagrams :
        /\ d.json = "txpk"
        /\ d.txpk.imme
        /\ d.txpk.datr # DatrMalformed
        /\ d.txpk.data = DataShort}

\* A running gateway and forwarder whose TX worker has taken an immediate
\* downlink on the RX2 default modulation from the queue and holds tx_mutex,
\* at the moment lora_gateway_stop has cleared s_gw.running and is about to
\* call channel_manager_stop; the history and the datagrams sent are
\* counted from this state on
InitInFlight ==
    /\ radio = [r \in Radios |->
                  IF r = "rx_radio"
                  THEN sx1276_start_rx(sx1276_init(RxRadioConfig))
                  ELSE sx1276_set_mode(sx1276_init(TxRadioConfig), "STANDBY")]
    /\ s_cm = [running |-> TRUE, tx_busy |-> TRUE, tx_mutex |-> TRUE,
               hopping_enabled |-> FALSE, hop_timer |-> FALSE,
               current_channel |-> 0]
    /\ tx_queue = << >>
    /\ txw = [NewTxTask EXCEPT
                !.pc = "check",
                !.packet =
                    LET m == CHOOSE mm \in TxModulations :
                                 mm.spreading_factor = SX1276_SF_12
                    IN  tx_pkt_of(Txpk(TRUE, 0, m, DatrOf(m), DataShort),
                                  MaxDownlinks + 1)]
    /\ s_gw = [initialized |-> TRUE, running |-> FALSE,
               stats |-> [ZeroStats EXCEPT !.tx_total = 1]]
    /\ rx_queue = << >>
    /\ rxw = "loop"
    /\ s_pf = [running |-> TRUE, connected |-> TRUE, push_sent |-> 0]
    /\ pfw = IdleRxTask
    /\ uplink_queue = << >>
    /\ udp_out = [tx_ack |-> << >>, push_data |-> << >>]
    /\ main_pc = "stop_cm"
    /\ clock \in BootClocks
    /\ hist = [scheduled |-> 0, frames |-> 0, transmitted |-> {},
               too_late |-> {}, pushed |-> 0, pull_resps |-> 0,
               pull_resp |-> NoPullResp, bad_frames |-> {}]
    /\ events = 0
    /\ pftx = NoPfTxTask
    /\ tmr = IdleTimerTask
    /\ b64 = NoBase64
    /\ app = IdleApp
    /\ s_net = StartedNet

\* the rest of lora_gateway_stop, lora_gateway_start, the two workers, the
\* interrupts and the forwarder's rx_task
NextRestart ==
    \/ ChannelManagerStop
    \/ ChannelManagerStopTx
    \/ GatewayStart
    \/ ChannelManagerStartTx
    \/ GatewayStartDone
    \/ \E d \in RestartDatagrams : HandlePullResp(d)
    \/ TxQueueSend
    \/ TxTaskExit
    \/ TxTaskReceive
    \/ TxTaskTake
    \/ TxTaskCheck
    \/ TxTaskTransmit
    \/ TxTaskTransmitStart
    \/ TxTaskAwait
    \/ \E r \in Radios, length \in RxSizes, crc_error \in BOOLEAN,
          rssi_reg \in RssiRegs :
           Dio0IsrRxDone(r, length, crc_error, rssi_reg)
    \/ \E r \in Radios : Dio0IsrTxDone(r)
    \/ RxProcessTask
    \/ RxProcessExit

\* Every task that is ready runs in the end (preemptive priority scheduling,
\* the blocking calls of the workers have timeouts), the application task
\* goes on through lora_gateway_stop and lora_gateway_start, a chip in TX
\* raises TX_DONE; nothing is assumed about the server or the air
RestartFairness ==
    /\ WF_vars(ChannelManagerStop)
    /\ WF_vars(ChannelManagerStopTx)
    /\ WF_vars(GatewayStart)
    /\ WF_vars(ChannelManagerStartTx)
    /\ WF_vars(GatewayStartDone)
    /\ WF_vars(TxQueueSend)
    /\ WF_vars(TxTaskExit)
    /\ WF_vars(TxTaskReceive)
    /\ WF_vars(TxTaskTake)
    /\ WF_vars(TxTaskCheck)
    /\ WF_vars(TxTaskTransmit)
    /\ WF_vars(TxTaskTransmitStart)
    /\ WF_vars(TxTaskAwait)
    /\ WF_vars(\E r \in Radios : Dio0IsrTxDone(r))
    /\ WF_vars(RxProcessTask)
    /\ WF_vars(RxProcessExit)

SpecRestart == InitInFlight /\ [][NextRestart]_vars /\ RestartFairness

\* downlink id waits in the TX queue; under SpecRestart a request is only
\* accepted once lora_gateway_start has set s_gw.running again
Queued(id) == \E i \in DOMAIN tx_queue : tx_queue[i].id = id

\* the downlinks accepted after the restart are handed to the TX radio
RestartTxHandedOver ==
    \A id \in 1..MaxDownlinks : Queued(id) ~> (id \in hist.transmitted)

\* the frames queued after the restart are taken by rx_process_task
RestartRxDelivered ==
    \A n \in 1..MaxEvents :
        (\E i \in DOMAIN rx_queue : rx_queue[i].payload = n)
            ~> ~(\E i \in DOMAIN rx_queue : rx_queue[i].payload = n)

\* C30: after lora_gateway_stop (issued while the TX worker holds tx_mutex
\* or anywhere later in its iteration) and lora_gateway_start, a downlink
\* accepted after the restart is in the end dequeued and handed to the TX
\* radio, and a frame received after the restart is in the end delivered
C30_WorkersRestartable ==
    /\ RestartTxHandedOver
    /\ RestartRxDelivered

----------------------------------------------------------------------------
(* Transmission counters, worker start-up, termination of stop *)

\* dio0_isr_handler's TX_DONE branch runs on some radio that was transmitting
\* for the channel manager
TxDoneStep ==
    \E r \in Radios :
        /\ radio[r].op_mode_reg = "TX"
        /\ radio[r].is_transmitting
        /\ radio[r].tx_callback
        /\ ~radio'[r].is_transmitting

\* C33: every transmission that completes with a TX_DONE interrupt adds one
\* to tx_ok
C33_TxDoneCountsTxOk ==
    [][TxDoneStep => s_gw'.stats.tx_ok = s_gw.stats.tx_ok + 1]_vars

\* lora_gateway_start returns ESP_OK
StartReturns ==
    /\ main_pc = "start_gw_running"
    /\ main_pc' = "idle"

\* C34: when lora_gateway_start returns, the workers it created are inside
\* their while (running) loops: none has seen its flag false and exited
C34_WorkersAliveAfterStart ==
    [][StartReturns => rxw' = "loop" /\ txw'.pc \notin {"exited", "none"}]_vars

\* C35: lora_gateway_stop, entered while the TX worker has a downlink in
\* hand, returns in the end, and when channel_manager_stop returns both
\* radios are in sleep
C35_StopTerminates ==
    /\ <>(main_pc = "idle")
    /\ [][main_pc = "stop_tx_sleep" /\ main_pc' = "idle" =>
            \A r \in Radios : radio'[r].op_mode_reg = "SLEEP"]_vars

----------------------------------------------------------------------------
(* Channel hopping over a whole round of the sub-band *)

\* environment events of one behaviour of SpecHop: enabling the timer, a
\* round of GATEWAY_MAX_CHANNELS ticks, a stop, a few more
HopEvents == 12

\* a started gateway: channel 0, hopping off (channel_manager_init zeroes
\* s_cm), RX radio receiving on the first channel of the sub-band
InitHop ==
    /\ radio = [r \in Radios |->
                  IF r = "rx_radio"
                  THEN sx1276_start_rx(sx1276_init(RxRadioConfig))
                  ELSE sx1276_set_mode(sx1276_init(TxRadioConfig), "STANDBY")]
    /\ s_cm = [running |-> TRUE, tx_busy |-> FALSE, tx_mutex |-> FALSE,
               hopping_enabled |-> FALSE, hop_timer |-> FALSE,
               current_channel |-> 0]
    /\ tx_queue = << >>
    /\ txw = NewTxTask
    /\ s_gw = [initialized |-> TRUE, running |-> TRUE, stats |-> ZeroStats]
    /\ rx_queue = << >>
    /\ rxw = "loop"
    /\ s_pf = [running |-> FALSE, connected |-> FALSE, push_sent |-> 0]
    /\ pfw = IdleRxTask
    /\ uplink_queue = << >>
    /\ udp_out = [tx_ack |-> << >>, push_data |-> << >>]
    /\ main_pc = "idle"
    /\ clock \in BootClocks
    /\ hist = [scheduled |-> 0, frames |-> 0, transmitted |-> {},
               too_late |-> {}, pushed |-> 0, pull_resps |-> 0,
               pull_resp |-> NoPullResp, bad_frames |-> {}]
    /\ events = MaxEvents - HopEvents
    /\ pftx = NoPfTxTask
    /\ tmr = IdleTimerTask
    /\ b64 = NoBase64
    /\ app = IdleApp
    /\ s_net = StartedNet

\* channel_manager_set_hopping, the hop timer, and the gateway stopped and
\* started again
NextHop ==
    \/ \E enabled \in BOOLEAN : SetHopping(enabled)
    \/ HopTimerCallback
    \/ GatewayStop
    \/ ChannelManagerStop
    \/ ChannelManagerStopTx
    \/ GatewayStart
    \/ ChannelManagerStartTx
    \/ GatewayStartDone

SpecHop == InitHop /\ [][NextHop]_vars

\* the uplink frequency of channel ch of the configured sub-band
SubBandFrequency(ch) == 915200000 + (((8 * AU915_SB2) + ch) * 200000)

\* the channel index or the tuning of the RX radio changes
HopStep ==
    \/ s_cm'.current_channel # s_cm.current_channel
    \/ radio'["rx_radio"].reg_frf # radio["rx_radio"].reg_frf
    \/ radio'["rx_radio"].config.frequency # radio["rx_radio"].config.frequency

----------------------------------------------------------------------------
(* gw_config_get_downlink_freq *)

\* a / b for a uint32_t a (kept as the int32 with the same bits) and an
\* int b > 0: for a >= 2^31 the quotient of 2^31 + low is put together from
\* the quotients and remainders of 2^31 - 1 and of low
UDiv32(a, b) ==
    IF a >= 0 THEN a \div b
    ELSE LET low == (a + MaxInt32) + 1
         IN  (MaxInt32 \div b) + (low \div b)
               + ((((MaxInt32 % b) + 1) + (low % b)) \div b)

\* variant: gw_config_get_downlink_freq without the cap of the channel
gw_config_get_downlink_freq_uncapped(uplink_freq) ==
    LET channel == UDiv32(Sub32(uplink_freq, AU915_FREQ_START_UP),
                          AU915_FREQ_STEP_UP)
        downlink_channel == channel \div 8
    IN  AU915_FREQ_START_DOWN + (downlink_channel * AU915_FREQ_STEP_DOWN)

\* gw_config_get_downlink_freq: the subtraction wraps in uint32_t
gw_config_get_downlink_freq(uplink_freq) ==
    LET channel == UDiv32(Sub32(uplink_freq, AU915_FREQ_START_UP),
                          AU915_FREQ_STEP_UP)
        downlink_channel == IF channel \div 8 > 7 THEN 7 ELSE channel \div 8
    IN  AU915_FREQ_START_DOWN + (downlink_channel * AU915_FREQ_STEP_DOWN)

\* channels whose frequencies are handed to the function: the 64 uplink
\* channels and the next ones
FreqChannels == 0..71

\* distances from a channel's frequency
FreqOffsets == {0, 199999}

\* the uint32_t inputs: channel frequencies and values inside the channel
\* spacing, the values around the first channel, and the ends of the range
\* (2^31 - 1, 2^31, 2^32 - 1 as int32)
DownlinkFreqInputs ==
    {AU915_FREQ_START_UP + (n * AU915_FREQ_STEP_UP) + o :
        n \in FreqChannels, o \in FreqOffsets}
    \cup {0, 1, AU915_FREQ_START_UP - 1, MaxInt32, MinInt32, MinInt32 + 1, -1}

\* a task about to call gw_config_get_downlink_freq(uplink_freq)
InitDownlinkFreq ==
    /\ InitProgram
    /\ b64 = NoBase64
    /\ s_net = StartedNet
    /\ app \in {[pc |-> "uplink_freq", uplink_freq |-> f, result |-> 0] :
                   f \in DownlinkFreqInputs}

DownlinkFreqCall ==
    /\ app.pc = "uplink_freq"
    /\ app' = [app EXCEPT !.pc = "downlink_freq",
                          !.result = gw_config_get_downlink_freq(
                                         app.uplink_freq)]
    /\ UNCHANGED << radio, s_cm, tx_queue, txw, s_gw, rx_queue, rxw, s_pf,
                    pfw, uplink_queue, udp_out, main_pc, clock, hist, events,
                    pftx, tmr, b64, s_net >>

SpecDownlinkFreq == InitDownlinkFreq /\ [][DownlinkFreqCall]_vars

\* C32: for uplink channel n of 0..63 the result is
\* 923300000 + (n div 8) * 600000, and for every input it is one of the
\* eight downlink frequencies
C32_DownlinkFreq ==
    app.pc = "downlink_freq" =>
        /\ \A n \in 0..63 :
             app.uplink_freq = 915200000 + (n * 200000)
                 => app.result = 923300000 + ((n \div 8) * 600000)
        /\ app.result \in {923300000 + (k * 600000) : k \in 0..7}

\* the last uplink channel has been mapped to the last downlink channel
C32_Witness ==
    /\ app.pc = "downlink_freq"
    /\ app.uplink_freq = 915200000 + (63 * 200000)
    /\ app.result = 923300000 + (7 * 600000)

----------------------------------------------------------------------------
(* The driver under direct calls: configuration of the RX radio through    *)
(* the gateway API, mode calls, transmission and channel activity          *)
(* detection on the TX radio, and the DIO0 interrupts                      *)

\* frequencies handed to lora_gateway_set_rx_frequency: the first and the
\* last channel of the sub-band
DriverFrequencies ==
    {gw_config_get_uplink_freq(0),
     gw_config_get_uplink_freq(GATEWAY_MAX_CHANNELS - 1)}

\* spreading factors and bandwidths handed to the setters
DriverSfs == {SX1276_SF_7, SX1276_SF_12}
DriverBws == {SX1276_BW_125_KHZ, SX1276_BW_500_KHZ}

\* modes handed to sx1276_set_mode
DriverModes == {"SLEEP", "STANDBY"}

\* sx1276_set_spreading_factor: modem config 2, the detection registers,
\* LowDataRateOptimize from sf and the cached bandwidth, the cached sf
sx1276_set_spreading_factor(dev, sf) ==
    IF sf < SX1276_SF_6 \/ sf > SX1276_SF_12 THEN dev
    ELSE [dev EXCEPT !.reg_sf = sf,
                     !.reg_ldro = (sf >= SX1276_SF_11
                                     /\ dev.config.bw <= SX1276_BW_125_KHZ),
                     !.config.sf = sf]

\* sx1276_set_bandwidth: modem config 1 and the cached bandwidth
sx1276_set_bandwidth(dev, bw) ==
    IF bw > SX1276_BW_500_KHZ THEN dev
    ELSE [dev EXCEPT !.reg_bw = bw, !.config.bw = bw]

\* lora_gateway_set_rx_params: sx1276_set_spreading_factor, then (when that
\* returned ESP_OK) sx1276_set_bandwidth
lora_gateway_set_rx_params(dev, sf, bw) ==
    IF sf < SX1276_SF_6 \/ sf > SX1276_SF_12 THEN dev
    ELSE sx1276_set_bandwidth(sx1276_set_spreading_factor(dev, sf), bw)

\* sx1276_transmit, whole
sx1276_transmit(dev, sx_packet) ==
    sx1276_transmit_start(sx1276_transmit_load(dev, sx_packet))

\* sx1276_channel_free: MODE_CAD is written, and MODE_STDBY once CAD_DONE
\* has been read; after 100 ms without CAD_DONE it returns ESP_ERR_TIMEOUT.
\* handle->current_mode is not written on either path
sx1276_channel_free(dev, cad_done) ==
    IF cad_done THEN [dev EXCEPT !.op_mode_reg = "STANDBY"]
    ELSE [dev EXCEPT !.op_mode_reg = "CAD"]

\* the FRF registers after sx1276_write_reg of the most, the middle and the
\* least significant byte of frf
WriteFrf(old, frf, byte) ==
    CASE byte = "frf_msb" -> ((frf \div 65536) * 65536) + (old % 65536)
      [] byte = "frf_mid" -> ((old \div 65536) * 65536)
                               + (((frf \div 256) % 256) * 256) + (old % 256)
      [] OTHER -> ((old \div 256) * 256) + (frf % 256)

\* a started gateway (as InitHop), no call in progress, one frame still
\* to be received
InitDriver ==
    /\ radio = [r \in Radios |->
                  IF r = "rx_radio"
                  THEN sx1276_start_rx(sx1276_init(RxRadioConfig))
                  ELSE sx1276_set_mode(sx1276_init(TxRadioConfig), "STANDBY")]
    /\ s_cm = [running |-> TRUE, tx_busy |-> FALSE, tx_mutex |-> FALSE,
               hopping_enabled |-> FALSE, hop_timer |-> FALSE,
               current_channel |-> 0]
    /\ tx_queue = << >>
    /\ txw = NewTxTask
    /\ s_gw = [initialized |-> TRUE, running |-> TRUE, stats |-> ZeroStats]
    /\ rx_queue = << >>
    /\ rxw = "loop"
    /\ s_pf = [running |-> FALSE, connected |-> FALSE, push_sent |-> 0]
    /\ pfw = IdleRxTask
    /\ uplink_queue = << >>
    /\ udp_out = [tx_ack |-> << >>, push_data |-> << >>]
    /\ main_pc = "idle"
    /\ clock \in BootClocks
    /\ hist = [scheduled |-> 0, frames |-> 0, transmitted |-> {},
               too_late |-> {}, pushed |-> 0, pull_resps |-> 0,
               pull_resp |-> NoPullResp, bad_frames |-> {}]
    /\ events = MaxEvents - 1
    /\ pftx = NoPfTxTask
    /\ tmr = IdleTimerTask
    /\ b64 = NoBase64
    /\ app = IdleApp
    /\ s_net = StartedNet

\* a driver call by the application task that runs from xSemaphoreTake to
\* xSemaphoreGive without the task being interrupted: radio r becomes dev
DriverCall(r, dev) ==
    /\ app.pc = "idle"
    /\ ~radio[r].mutex
    /\ radio' = [radio EXCEPT ![r] = dev]
    /\ UNCHANGED << s_cm, tx_queue, txw, s_gw, rx_queue, rxw, s_pf, pfw,
                    uplink_queue, udp_out, main_pc, clock, hist, events,
                    pftx, tmr, b64, app, s_net >>

\* lora_gateway_set_rx_frequency: sx1276_set_frequency has taken the mutex
SetRxFrequencyTake(frequency) ==
    /\ app.pc = "idle"
    /\ ~radio["rx_radio"].mutex
    /\ radio' = [radio EXCEPT !["rx_radio"].mutex = TRUE]
    /\ app' = [pc |-> "frf_msb", frequency |-> frequency]
    /\ UNCHANGED << s_cm, tx_queue, txw, s_gw, rx_queue, rxw, s_pf, pfw,
                    uplink_queue, udp_out, main_pc, clock, hist, events,
                    pftx, tmr, b64, s_net >>

\* sx1276_set_frequency: the next of its three sx1276_write_reg; after the
\* last one the frequency is cached and the mutex given
SetRxFrequencyWrite ==
    /\ app.pc \in {"frf_msb", "frf_mid", "frf_lsb"}
    /\ LET dev == [radio["rx_radio"] EXCEPT
                      !.reg_frf = WriteFrf(@, Frf(app.frequency), app.pc)]
       IN  IF app.pc = "frf_lsb"
           THEN /\ radio' = [radio EXCEPT !["rx_radio"] =
                               [dev EXCEPT !.config.frequency = app.frequency,
                                           !.mutex = FALSE]]
                /\ app' = IdleApp
           ELSE /\ radio' = [radio EXCEPT !["rx_radio"] = dev]
                /\ app' = [app EXCEPT !.pc = IF app.pc = "frf_msb"
                                             THEN "frf_mid" ELSE "frf_lsb"]
    /\ UNCHANGED << s_cm, tx_queue, txw, s_gw, rx_queue, rxw, s_pf, pfw,
                    uplink_queue, udp_out, main_pc, clock, hist, events,
                    pftx, tmr, b64, s_net >>

SetRxParams(sf, bw) ==
    DriverCall("rx_radio",
               lora_gateway_set_rx_params(radio["rx_radio"], sf, bw))

SetSpreadingFactor(sf) ==
    DriverCall("rx_radio", sx1276_set_spreading_factor(radio["rx_radio"], sf))

SetBandwidth(bw) ==
    DriverCall("rx_radio", sx1276_set_bandwidth(radio["rx_radio"], bw))

SetMode(r, mode) == DriverCall(r, sx1276_set_mode(radio[r], mode))

StartRx == DriverCall("rx_radio", sx1276_start_rx(radio["rx_radio"]))

StopRx == DriverCall("rx_radio", sx1276_stop_rx(radio["rx_radio"]))

Transmit ==
    DriverCall("tx_radio",
               sx1276_transmit(radio["tx_radio"], sx_packet_of(BootDownlink)))

ChannelFree(cad_done) ==
    DriverCall("tx_radio", sx1276_channel_free(radio["tx_radio"], cad_done))

NextDriver ==
    \/ \E frequency \in DriverFrequencies : SetRxFrequencyTake(frequency)
    \/ SetRxFrequencyWrite
    \/ \E sf \in DriverSfs, bw \in DriverBws : SetRxParams(sf, bw)
    \/ \E sf \in DriverSfs : SetSpreadingFactor(sf)
    \/ \E bw \in DriverBws : SetBandwidth(bw)
    \/ \E r \in Radios, mode \in DriverModes : SetMode(r, mode)
    \/ StartRx
    \/ StopRx
    \/ Transmit
    \/ \E cad_done \in BOOLEAN : ChannelFree(cad_done)
    \/ \E r \in Radios, length \in RxSizes, crc_error \in BOOLEAN,
          rssi_reg \in RssiRegs :
           Dio0IsrRxDone(r, length, crc_error, rssi_reg)
    \/ \E r \in Radios : Dio0IsrTxDone(r)

SpecDriver == InitDriver /\ [][NextDriver]_vars

\* dio0_isr_handler runs on radio r: a frame is counted, or a transmission
\* is marked as finished
IsrOn(r) ==
    \/ /\ hist'.frames = hist.frames + 1
       /\ radio[r].op_mode_reg = "RX_CONTINUOUS"
    \/ /\ radio[r].is_transmitting
       /\ ~radio'[r].is_transmitting

\* C31: the register accesses of the DIO0 interrupt handler of a radio
\* never fall inside a register sequence that a task runs under that
\* radio's mutex
C31_IsrOutsideMutex ==
    [][\A r \in Radios : IsrOn(r) => ~radio[r].mutex]_vars

\* C36: between calls, LowDataRateOptimize is set exactly when the radio's
\* spreading factor is 11 or more and its bandwidth 125 kHz or less
C36_LdroFollowsSfAndBw ==
    \A r \in Radios :
        ~radio[r].mutex =>
            (radio[r].reg_ldro <=>
                (radio[r].reg_sf >= 11 /\ radio[r].reg_bw <= 7))

\* C39: between calls, the cached mode is the mode last written to
\* REG_OP_MODE
C39_CachedModeIsChipMode ==
    \A r \in Radios :
        ~radio[r].mutex => radio[r].current_mode = radio[r].op_mode_reg

----------------------------------------------------------------------------
(* The statistics under lora_gateway_get_stats and                         *)
(* lora_gateway_reset_stats in task context, with RX interrupts            *)

\* the parts of gateway_stats_t that memset and memcpy go through: the
\* three counters of lora_gateway_rx_handler, and the other fields
StatsWords == {"rx_total", "rx_ok", "rx_bad", "rest"}

\* memset(&s_gw.stats, 0, ...) has reached word w
ClearWord(stats, w) ==
    IF w = "rest"
    THEN [ZeroStats EXCEPT !.rx_total = stats.rx_total,
                           !.rx_ok = stats.rx_ok,
                           !.rx_bad = stats.rx_bad]
    ELSE [stats EXCEPT ![w] = 0]

\* memcpy(stats, &s_gw.stats, ...) has reached word w
CopyWord(copy, stats, w) ==
    IF w = "rest"
    THEN [stats EXCEPT !.rx_total = copy.rx_total,
                       !.rx_ok = copy.rx_ok,
                       !.rx_bad = copy.rx_bad]
    ELSE [copy EXCEPT ![w] = stats[w]]

\* a started gateway, no call in progress, no frame received yet
InitStats ==
    /\ radio = [r \in Radios |->
                  IF r = "rx_radio"
                  THEN sx1276_start_rx(sx1276_init(RxRadioConfig))
                  ELSE sx1276_set_mode(sx1276_init(TxRadioConfig), "STANDBY")]
    /\ s_cm = [running |-> TRUE, tx_busy |-> FALSE, tx_mutex |-> FALSE,
               hopping_enabled |-> FALSE, hop_timer |-> FALSE,
               current_channel |-> 0]
    /\ tx_queue = << >>
    /\ txw = NewTxTask
    /\ s_gw = [initialized |-> TRUE, running |-> TRUE, stats |-> ZeroStats]
    /\ rx_queue = << >>
    /\ rxw = "loop"
    /\ s_pf = [running |-> FALSE, connected |-> FALSE, push_sent |-> 0]
    /\ pfw = IdleRxTask
    /\ uplink_queue = << >>
    /\ udp_out = [tx_ack |-> << >>, push_data |-> << >>]
    /\ main_pc = "idle"
    /\ clock \in BootClocks
    /\ hist = [scheduled |-> 0, frames |-> 0, transmitted |-> {},
               too_late |-> {}, pushed |-> 0, pull_resps |-> 0,
               pull_resp |-> NoPullResp, bad_frames |-> {}]
    /\ events = 0
    /\ pftx = NoPfTxTask
    /\ tmr = IdleTimerTask
    /\ b64 = NoBase64
    /\ app = IdleApp
    /\ s_net = StartedNet

\* the application task enters lora_gateway_reset_stats
ResetStatsCall ==
    /\ app.pc = "idle"
    /\ app' = [pc |-> "reset_stats", left |-> StatsWords]
    /\ UNCHANGED << radio, s_cm, tx_queue, txw, s_gw, rx_queue, rxw, s_pf,
                    pfw, uplink_queue, udp_out, main_pc, clock, hist, events,
                    pftx, tmr, b64, s_net >>

\* memset clears one more word of s_gw.stats; after the last one
\* lora_gateway_reset_stats returns
ResetStatsWord(w) ==
    /\ app.pc = "reset_stats"
    /\ w \in app.left
    /\ s_gw' = [s_gw EXCEPT !.stats = ClearWord(@, w)]
    /\ app' = IF app.left = {w} THEN IdleApp
              ELSE [app EXCEPT !.left = @ \ {w}]
    /\ UNCHANGED << radio, s_cm, tx_queue, txw, rx_queue, rxw, s_pf,
                    pfw, uplink_queue, udp_out, main_pc, clock, hist, events,
                    pftx, tmr, b64, s_net >>

\* the application task enters lora_gateway_get_stats
GetStatsCall ==
    /\ app.pc = "idle"
    /\ app' = [pc |-> "get_stats", left |-> StatsWords, copy |-> ZeroStats]
    /\ UNCHANGED << radio, s_cm, tx_queue, txw, s_gw, rx_queue, rxw, s_pf,
                    pfw, uplink_queue, udp_out, main_pc, clock, hist, events,
                    pftx, tmr, b64, s_net >>

\* memcpy copies one more word of s_gw.stats; the caller has its copy
\* after the last one
GetStatsWord(w) ==
    /\ app.pc = "get_stats"
    /\ w \in app.left
    /\ app' = [pc |-> IF app.left = {w} THEN "got_stats" ELSE "get_stats",
               left |-> app.left \ {w},
               copy |-> CopyWord(app.copy, s_gw.stats, w)]
    /\ UNCHANGED << radio, s_cm, tx_queue, txw, s_gw, rx_queue, rxw, s_pf,
                    pfw, uplink_queue, udp_out, main_pc, clock, hist, events,
                    pftx, tmr, b64, s_net >>

\* the caller is done with its copy
GetStatsReturn ==
    /\ app.pc = "got_stats"
    /\ app' = IdleApp
    /\ UNCHANGED << radio, s_cm, tx_queue, txw, s_gw, rx_queue, rxw, s_pf,
                    pfw, uplink_queue, udp_out, main_pc, clock, hist, events,
                    pftx, tmr, b64, s_net >>

NextStats ==
    \/ ResetStatsCall
    \/ \E w \in StatsWords : ResetStatsWord(w)
    \/ GetStatsCall
    \/ \E w \in StatsWords : GetStatsWord(w)
    \/ GetStatsReturn
    \/ \E r \in Radios, length \in RxSizes, crc_error \in BOOLEAN,
          rssi_reg \in RssiRegs :
           Dio0IsrRxDone(r, length, crc_error, rssi_reg)

SpecStats == InitStats /\ [][NextStats]_vars

\* C38: whenever neither the RX handler nor a statistics call is in
\* progress, rx_total = rx_ok + rx_bad in the gateway's statistics, and in
\* the copy that lora_gateway_get_stats has handed out
C38_RxCountersAddUp ==
    /\ app.pc = "idle" =>
          s_gw.stats.rx_total = s_gw.stats.rx_ok + s_gw.stats.rx_bad
    /\ app.pc = "got_stats" =>
          app.copy.rx_total = app.copy.rx_ok + app.copy.rx_bad

----------------------------------------------------------------------------
(* The network monitor: net_monitor_callback and perform_failover in the   *)
(* timer task, the interface statuses changed by the WiFi and Ethernet     *)
(* event handlers                                                          *)

Interfaces == {"NET_IF_WIFI", "NET_IF_ETHERNET"}

\* the statuses that wifi_event_handler and eth_event_handler assign
HandlerStatuses ==
    [wifi |-> {"NET_STATUS_DISCONNECTED", "NET_STATUS_CONNECTING",
               "NET_STATUS_CONNECTED", "NET_STATUS_FAILED"},
     eth |-> {"NET_STATUS_DISCONNECTED", "NET_STATUS_CONNECTING",
              "NET_STATUS_CONNECTED"}]

\* (interface == NET_IF_WIFI) ? wifi_status : eth_status
StatusOf(interface, wifi_status, eth_status) ==
    IF interface = "NET_IF_WIFI" THEN wifi_status ELSE eth_status

\* s_active_interface after net_manager_switch_interface(interface)
net_manager_switch_interface(active, interface) ==
    IF interface = active THEN active ELSE interface

\* s_active_interface after net_monitor_callback found the active
\* interface connected: back to the preferred interface when that is
\* connected too
net_monitor_switch_back(active, preferred, wifi_status, eth_status) ==
    IF preferred # active
         /\ StatusOf(preferred, wifi_status, eth_status)
                = "NET_STATUS_CONNECTED"
    THEN net_manager_switch_interface(active, preferred)
    ELSE active

perform_failover_stay(active, wifi_status, eth_status) == active

\* s_active_interface after perform_failover with the statuses it read
perform_failover(active, wifi_status, eth_status) ==
    IF active = "NET_IF_WIFI" /\ eth_status = "NET_STATUS_CONNECTED"
    THEN net_manager_switch_interface(active, "NET_IF_ETHERNET")
    ELSE IF active = "NET_IF_ETHERNET"
              /\ wifi_status = "NET_STATUS_CONNECTED"
         THEN net_manager_switch_interface(active, "NET_IF_WIFI")
         ELSE active

\* net_manager_start with either interface preferred, both enabled
InitNet ==
    /\ InitProgram
    /\ b64 = NoBase64
    /\ app = IdleApp
    /\ s_net \in {[StartedNet EXCEPT !.preferred = p, !.active = p] :
                     p \in Interfaces}

\* an event handler of the WiFi or the Ethernet driver records a new
\* status of its interface
StatusEvent(handler, status) ==
    /\ s_net[handler] # status
    /\ s_net' = [s_net EXCEPT ![handler] = status]
    /\ UNCHANGED << radio, s_cm, tx_queue, txw, s_gw, rx_queue, rxw, s_pf,
                    pfw, uplink_queue, udp_out, main_pc, clock, hist, events,
                    pftx, tmr, b64, app >>

\* the monitor timer fires: net_monitor_callback up to its return or its
\* call of perform_failover
NetMonitorCallback ==
    /\ s_net.pc = "idle"
    /\ IF ~s_net.auto_failover
       THEN UNCHANGED s_net
       ELSE LET wifi_status == s_net.wifi
                eth_status == s_net.eth
                active_status ==
                    StatusOf(s_net.active, wifi_status, eth_status)
                seen == [s_net EXCEPT
                           !.read = [wifi |-> wifi_status,
                                     eth |-> eth_status],
                           !.preferred_read =
                               StatusOf(s_net.preferred, wifi_status,
                                        eth_status) = "NET_STATUS_CONNECTED"]
            IN  IF active_status = "NET_STATUS_CONNECTED"
                THEN s_net' = [seen EXCEPT !.active =
                                  net_monitor_switch_back(
                                      s_net.active, s_net.preferred,
                                      wifi_status, eth_status)]
                ELSE s_net' = [seen EXCEPT !.pc = "failover"]
    /\ UNCHANGED << radio, s_cm, tx_queue, txw, s_gw, rx_queue, rxw, s_pf,
                    pfw, uplink_queue, udp_out, main_pc, clock, hist, events,
                    pftx, tmr, b64, app >>

\* perform_failover: the statuses are read again, and the callback returns
PerformFailover ==
    /\ s_net.pc = "failover"
    /\ LET wifi_status == s_net.wifi
           eth_status == s_net.eth
       IN  s_net' = [s_net EXCEPT
               !.active = perform_failover(s_net.active, wifi_status,
                                           eth_status),
               !.read = [wifi |-> wifi_status, eth |-> eth_status],
               !.preferred_read =
                   @ /\ StatusOf(s_net.preferred, wifi_status, eth_status)
                            = "NET_STATUS_CONNECTED",
               !.pc = "idle"]
    /\ UNCHANGED << radio, s_cm, tx_queue, txw, s_gw, rx_queue, rxw, s_pf,
                    pfw, uplink_queue, udp_out, main_pc, clock, hist, events,
                    pftx, tmr, b64, app >>

NextNet ==
    \/ \E handler \in {"wifi", "eth"} :
           \E status \in HandlerStatuses[handler] :
               StatusEvent(handler, status)
    \/ NetMonitorCallback
    \/ PerformFailover

SpecNet == InitNet /\ [][NextNet]_vars

\* a monitor tick has returned, with auto failover and an active interface
AfterTick ==
    /\ s_net.pc = "idle"
    /\ s_net.auto_failover
    /\ s_net.active \in Interfaces
    /\ s_net.read.wifi # "none"

\* C40: after every monitor tick, relative to the statuses that the tick
\* read last: if an interface is connected then the active one is; and if
\* the preferred interface was connected at every read of the tick, then
\* it is the active one
C40_FailoverFollowsStatus ==
    AfterTick =>
        /\ "NET_STATUS_CONNECTED" \in {s_net.read.wifi, s_net.read.eth}
              => StatusOf(s_net.active, s_net.read.wifi, s_net.read.eth)
                     = "NET_STATUS_CONNECTED"
        /\ s_net.preferred_read => s_net.active = s_net.preferred

\* a tick failed over from the preferred WiFi to the connected Ethernet
C40_Witness ==
    /\ AfterTick
    /\ s_net.preferred = "NET_IF_WIFI"
    /\ s_net.active = "NET_IF_ETHERNET"
    /\ s_net.read = [wifi |-> "NET_STATUS_FAILED",
                     eth |-> "NET_STATUS_CONNECTED"]

\* C40 as stated: after every monitor tick, relative to the statuses read
\* in the tick, a connected interface is active if there is one, and the
\* preferred interface is active if it is connected
C40_AsStated ==
    AfterTick =>
        /\ "NET_STATUS_CONNECTED" \in {s_net.read.wifi, s_net.read.eth}
              => StatusOf(s_net.active, s_net.read.wifi, s_net.read.eth)
                     = "NET_STATUS_CONNECTED"
        /\ StatusOf(s_net.preferred, s_net.read.wifi, s_net.read.eth)
               = "NET_STATUS_CONNECTED"
              => s_net.active = s_net.preferred

====
